---------------------------- MODULE Spec2Model ----------------------------
(***************************************************************************)
(* Veggie Clash: model of the shared game state, the settings object, the  *)
(* mission manager, the asset registry, the page boot sequence, the enemy  *)
(* state machine, the player's weapons and power-ups and the high-score    *)
(* persistence.                                                            *)
(*                                                                         *)
(* Each subsystem owns a group of variables and has its own specification  *)
(* (SpecGameState, SpecSettings, ...): its actions leave the variables of  *)
(* the other subsystems unchanged.                                         *)
(*                                                                         *)
(* Numbers that are fractions in the program are scaled to integers:       *)
(* volume levels are in tenths (0.7 is 7), multipliers in hundredths       *)
(* (1.15 is 115), runner distances in tenths of a metre.                   *)
(***************************************************************************)
EXTENDS Integers, Sequences, FiniteSets, TLC

VARIABLES
    gsData,        \* GameState.data (score, playerHP, playerMaxHP)
    gsStorage,     \* localStorage['vc_game_state_v1']
    settings,      \* Settings.settings
    setStorage,    \* localStorage['veggie-clash-settings']
    setLoaded,     \* what the last loadSettings call read: "none" before any call
    mmMissions,    \* MissionManager.missions
    mmLastReset,   \* MissionManager.lastReset (half-days since the epoch)
    mmStorage,     \* localStorage['veggieClash_missions']
    mmNow,         \* Date.now() (half-days since the epoch)
    mmPhase,       \* "none": no MissionManager yet, "ready": constructed, "threw"
    mmLoaded,      \* the text loadProgress read, while the constructor has just returned
    mmUpdates,     \* updateProgress calls so far
    arTextures,    \* the keys for which scene.textures.exists(key) holds
    arExternal,    \* the keys of the textures the loader has added
    arGenerator,   \* initializeAsync: "pending", "done" or "failed"
    arRequest,     \* the key of the last getTexture call ("" before any)
    arResult,      \* what that call returned
    btPc,          \* "page", "waiting" (handler done), "failed" (catch), "aborted"
    btClock,       \* seconds since DOMContentLoaded
    btTimer,       \* loadingTimeout: "none", "pending", "fired" or "cleared"
    btGameReady,   \* gameReady
    btReadyAt,     \* the second in which 'ready' fired, NotYet before
    btShown,       \* how often the failure message and reload button were added
    btException,   \* an exception ended or diverted the handler
    btStartButton, \* the start button: "visible" or "hidden"
    btScreen,      \* the loading screen: "visible" or "hidden"
    btAccess,      \* accessibilitySettings, as persisted
    btHidden,      \* document.hidden
    enPhase,       \* the followed enemy: "none", "alive" or "destroyed"
    enType,        \* Enemy.enemyType
    enState,       \* Enemy.state
    enStateTimer,  \* Enemy.stateTimer (ms)
    enHealth,      \* Enemy.health
    enTarget,      \* whether Enemy.target is set
    enDistance,    \* distance between the enemy and the player
    enScenePlayer, \* whether the scene has a player
    plWeapon,      \* Player.currentWeapon
    plAmmo,        \* Player.currentAmmo
    plMaxAmmo,     \* Player.maxAmmo
    plShots,       \* projectiles created since the weapon was selected
    plSinceShot,   \* Date.now() - lastShotTime (ms), up to MaxShotGap
    plLastShoot,   \* the last shoot() call: "none", "too soon", "empty", "fired"
    plLastDamage,  \* the damage of the last projectile created (0: none yet)
    plPowerUps,    \* Player.activePowerUps
    plMoveSpeed,   \* Player.moveSpeed
    plStats,       \* the last playerStatsChanged event
    hsStorage,     \* localStorage['highScore_<mode>'] per mode, in tenths
    hsStats,       \* the score in localStorage['stats_<mode>'] per mode
    hsBefore,      \* the high score item of the mode before the last Game Over
    hsScore,       \* the score of the last Game Over screen
    hsMode,        \* the mode of the last Game Over screen ("" before any)
    pvScene,       \* the running scene as the player sees it: "game", "gameOver"
    pvHealth,      \* Player.health
    pvInvulnerabilityTime, \* Player.invulnerabilityTime (ms)
    pvRegenTimer,  \* Player.regenTimer (ms)
    pvOutOfCombat, \* Date.now() - lastCombatTime > PLAYER_REGEN_DELAY
    pvIsDashing,   \* Player.isDashing
    pvDashLeft,    \* what is left of the dash tween (ms)
    pvDashCooldown, \* Player.dashCooldown (ms)
    pvSinceHit,    \* update time since health was last reduced, up to 500
    pvLastHit,     \* the last takeDamage call: its result and pvSinceHit before it
    pvRegenWait,   \* update time the player has waited for the next regenerated point
    pvDied,        \* health has been 0 in this run
    pvDiedFrames,  \* 1 when a frame has run after health reached 0
    \* GameScene
    scScene,        \* the scene shown: menu, game, gameOver, victory
    scData,         \* gameData: mode and level
    scRun,          \* score, wave, enemiesKilled, gameTime, the groups' sizes, the player
    scIsPaused,     \* isPaused
    scOverlay,      \* the pause overlay is on screen
    scWorldPaused,  \* physics.world is paused
    scSpawnRate,    \* GAME_SETTINGS.ENEMY_SPAWN_RATE
    scPrevWaveRate, \* the spawn rate in force before the last wave increase
    \* Enemy fire
    epEnemy,               \* a tomato is alive with the player in range
    epSinceAttack,         \* Date.now() - lastAttackTime, up to the cooldown
    epOwn,                 \* projectiles in the enemy's own group
    epScene,               \* projectiles in scene.enemyProjectiles
    epHealth,              \* the player's health
    epInvulnerabilityTime, \* the player's invulnerabilityTime
    epLastOverlap,         \* the last overlap of an enemy projectile and the player
    \* Pause menu
    psMenu,            \* MenuScene (or the Game Over scene) is showing
    psStatus,          \* the status of GameScene and of RunnerGameScene
    psPause,           \* the status of PauseScene
    psHud,             \* the status of HUDScene
    psHidden,          \* document.hidden
    psOpener,          \* the gameplay scene that paused itself to open the pause menu
    psSelectedIndex,   \* PauseScene.selectedIndex
    psSettingsOverlay, \* PauseScene.settingsOverlay is set
    \* InputManager
    imInputEnabled,       \* inputEnabled
    imKeyDown,            \* whether the key bound to each action is down
    imActionStates,       \* actionStates
    imActionJustPressed,  \* actionJustPressed
    imActionJustReleased  \* actionJustReleased

gsVars == <<gsData, gsStorage>>
setVars == <<settings, setStorage, setLoaded>>

mmVars == <<mmMissions, mmLastReset, mmStorage, mmNow, mmPhase, mmLoaded, mmUpdates>>

arVars == <<arTextures, arExternal, arGenerator, arRequest, arResult>>

btVars == <<btPc, btClock, btTimer, btGameReady, btReadyAt, btShown, btException,
           btStartButton, btScreen, btAccess, btHidden>>

enVars == <<enPhase, enType, enState, enStateTimer, enHealth, enTarget, enDistance,
           enScenePlayer>>

plVars == <<plWeapon, plAmmo, plMaxAmmo, plShots, plSinceShot, plLastShoot,
           plLastDamage, plPowerUps, plMoveSpeed, plStats>>

hsVars == <<hsStorage, hsStats, hsBefore, hsScore, hsMode>>

pvVars == <<pvScene, pvHealth, pvInvulnerabilityTime, pvRegenTimer, pvOutOfCombat,
           pvIsDashing, pvDashLeft, pvDashCooldown, pvSinceHit, pvLastHit,
           pvRegenWait, pvDied, pvDiedFrames>>

scVars == <<scScene, scData, scRun, scIsPaused, scOverlay, scWorldPaused, scSpawnRate,
           scPrevWaveRate>>

epVars == <<epEnemy, epSinceAttack, epOwn, epScene, epHealth, epInvulnerabilityTime,
           epLastOverlap>>

psVars == <<psMenu, psStatus, psPause, psHud, psHidden, psOpener, psSelectedIndex,
           psSettingsOverlay>>

imVars == <<imInputEnabled, imKeyDown, imActionStates, imActionJustPressed,
           imActionJustReleased>>

vars == <<gsVars, setVars, mmVars, arVars, btVars, enVars, plVars, hsVars, pvVars, scVars,
          epVars, psVars, imVars>>

\* What the actions of one subsystem leave unchanged
gsOthers == <<setVars, mmVars, arVars, btVars, enVars, plVars, hsVars, pvVars, scVars, epVars, psVars, imVars>>
setOthers == <<gsVars, mmVars, arVars, btVars, enVars, plVars, hsVars, pvVars, scVars, epVars, psVars, imVars>>
mmOthers == <<gsVars, setVars, arVars, btVars, enVars, plVars, hsVars, pvVars, scVars, epVars, psVars, imVars>>
arOthers == <<gsVars, setVars, mmVars, btVars, enVars, plVars, hsVars, pvVars, scVars, epVars, psVars, imVars>>
btOthers == <<gsVars, setVars, mmVars, arVars, enVars, plVars, hsVars, pvVars, scVars, epVars, psVars, imVars>>
enOthers == <<gsVars, setVars, mmVars, arVars, btVars, plVars, hsVars, pvVars, scVars, epVars, psVars, imVars>>
plOthers == <<gsVars, setVars, mmVars, arVars, btVars, enVars, hsVars, pvVars, scVars, epVars, psVars, imVars>>
hsOthers == <<gsVars, setVars, mmVars, arVars, btVars, enVars, plVars, pvVars, scVars, epVars, psVars, imVars>>
pvOthers == <<gsVars, setVars, mmVars, arVars, btVars, enVars, plVars, hsVars, scVars, epVars, psVars, imVars>>
scOthers == <<gsVars, setVars, mmVars, arVars, btVars, enVars, plVars, hsVars, pvVars, epVars, psVars, imVars>>
epOthers == <<gsVars, setVars, mmVars, arVars, btVars, enVars, plVars, hsVars, pvVars, scVars, psVars, imVars>>
psOthers == <<gsVars, setVars, mmVars, arVars, btVars, enVars, plVars, hsVars, pvVars, scVars, epVars, imVars>>
imOthers == <<gsVars, setVars, mmVars, arVars, btVars, enVars, plVars, hsVars, pvVars, scVars, epVars, psVars>>

Min(a, b) == IF a < b THEN a ELSE b
Max(a, b) == IF a > b THEN a ELSE b

\* JS object spread { ...a, ...b }: the keys of both, b's value where b has the key
Spread(a, b) == [k \in (DOMAIN a) \cup (DOMAIN b) |-> IF k \in DOMAIN b THEN b[k] ELSE a[k]]

\* The empty object {}
EmptyObj == [k \in {} |-> 0]

(***************************************************************************)
(* Local storage texts.  A text is absent (getItem returns null), does not *)
(* parse as JSON, is the JSON literal null, or is a JSON object.           *)
(***************************************************************************)
AbsentText == [kind |-> "absent"]
GarbageText == [kind |-> "garbage"]
NullText == [kind |-> "null"]

\* JSON.stringify of an object
JSONStringify(obj) == [kind |-> "json", val |-> obj]

\* JSON.parse throws on text that is not JSON
ParseThrows(text) == text.kind = "garbage"

\* JSON.parse of a text that parses: an object, or null
ParsesToNull(text) == text.kind = "null"
JSONParse(text) == IF text.kind = "json" THEN text.val ELSE EmptyObj

(***************************************************************************)
(* GameState (src/game/state/GameState.ts)                                 *)
(***************************************************************************)
MaxHPUnits == 3
HPInputs == { i * 50 : i \in (-1)..MaxHPUnits }
ScoreInputs == {0, 100}

GameStateReset == [score |-> 0, playerHP |-> 100, playerMaxHP |-> 100]

InitGameState ==
    /\ gsData = GameStateReset
    /\ gsStorage = AbsentText

\* reset()
GSReset ==
    /\ gsData' = GameStateReset
    /\ UNCHANGED <<gsStorage, gsOthers>>

\* setData(data: Partial<GameStateData>): every subset of the fields may be given
GSSetData ==
    \E keys \in SUBSET {"score", "playerHP", "playerMaxHP"} :
      \E hp \in HPInputs, maxHP \in HPInputs, sc \in ScoreInputs :
        LET full == [score |-> sc, playerHP |-> hp, playerMaxHP |-> maxHP]
            data == [k \in keys |-> full[k]]
        IN /\ gsData' = Spread(gsData, data)
           /\ UNCHANGED <<gsStorage, gsOthers>>

\* updateScore(points)
GSUpdateScore ==
    /\ gsData.score < 100
    /\ gsData' = [gsData EXCEPT !.score = @ + 100]
    /\ UNCHANGED <<gsStorage, gsOthers>>

\* setPlayerHP(hp)
SetPlayerHPValue(hp, maxHP) == Max(0, Min(hp, maxHP))
GSSetPlayerHP ==
    \E hp \in HPInputs :
        /\ gsData' = [gsData EXCEPT !.playerHP = SetPlayerHPValue(hp, gsData.playerMaxHP)]
        /\ UNCHANGED <<gsStorage, gsOthers>>

\* setPlayerMaxHP(maxHP)
GSSetPlayerMaxHP ==
    \E maxHP \in HPInputs :
        /\ gsData' = [gsData EXCEPT !.playerMaxHP = maxHP,
                                    !.playerHP = Min(gsData.playerHP, maxHP)]
        /\ UNCHANGED <<gsStorage, gsOthers>>

\* saveToStorage()
GSSaveToStorage ==
    /\ gsStorage' = JSONStringify(gsData)
    /\ UNCHANGED <<gsData, gsOthers>>

\* Another tab or the user clears or corrupts the stored text
GSStorageLost ==
    /\ gsStorage' \in {AbsentText, GarbageText}
    /\ gsStorage' # gsStorage
    /\ UNCHANGED <<gsData, gsOthers>>

\* loadFromStorage()
GSLoadFromStorage ==
    /\ gsData' = IF gsStorage.kind = "absent" \/ ParseThrows(gsStorage)
                 THEN gsData
                 ELSE Spread(gsData, JSONParse(gsStorage))
    /\ UNCHANGED <<gsStorage, gsOthers>>

NextGameState ==
    \/ GSReset
    \/ GSSetData
    \/ GSUpdateScore
    \/ GSSetPlayerHP
    \/ GSSetPlayerMaxHP
    \/ GSSaveToStorage
    \/ GSStorageLost
    \/ GSLoadFromStorage

(***************************************************************************)
(* Settings (src/game/systems/MissionManager.ts, class Settings)           *)
(***************************************************************************)
\* Volume levels are in tenths: 0.7 is 7, the range [0, 1] is 0..10
MaxVolumeInput == 15
VolumeInputs == {-5, MaxVolumeInput}
QualityInputs == {"low", "medium", "high"}

BindingActions == {"moveUp", "dash", "pause"}
BindingKeys == {"W", "SPACE", "ESC", "X"}
\* Object.keys(keyBindings) lists the actions in insertion order
BindingOrder == <<"moveUp", "dash", "pause">>

DefaultKeyBindings == [moveUp |-> "W", dash |-> "SPACE", pause |-> "ESC"]

getDefaultSettings ==
    [masterVolume |-> 7, sfxVolume |-> 8, musicVolume |-> 6,
     graphicsQuality |-> "high", enableBloom |-> TRUE, particleQuality |-> "high",
     highContrast |-> FALSE, keyBindings |-> DefaultKeyBindings]

SettingKeys == DOMAIN getDefaultSettings
VolumeKeys == {"masterVolume", "sfxVolume", "musicVolume"}

\* Texts the settings key may hold that this session did not write: nothing,
\* a damaged text, the literal null, and objects written by hand or by an
\* older version (a subset of the keys, a partial key-binding table, a key
\* the settings do not have)
ExternalTexts ==
    {AbsentText, GarbageText, NullText,
     JSONStringify(EmptyObj),
     JSONStringify([masterVolume |-> MaxVolumeInput]),
     JSONStringify([musicVolume |-> 3, highContrast |-> TRUE]),
     JSONStringify([keyBindings |-> [moveUp |-> "X"]]),
     JSONStringify([sfxVolume |-> -5, bogus |-> TRUE])}

NoLoad == [kind |-> "none"]

InitSettings ==
    /\ settings = getDefaultSettings
    /\ setStorage = AbsentText
    /\ setLoaded = NoLoad

\* saveSettings(): the text written for the current settings
saveSettings(s) == JSONStringify(s)

\* applyGraphicsQuality(quality)
applyGraphicsQuality(s, quality) ==
    [s EXCEPT !.enableBloom = (quality = "high"),
              !.particleQuality = quality]

\* The value set() stores for a volume key
SetVolumeValue(v) == v

\* set(key, value) for a volume key
SettingsSetVolume ==
    \E key \in VolumeKeys, v \in VolumeInputs :
        /\ settings' = [settings EXCEPT ![key] = SetVolumeValue(v)]
        /\ setStorage' = saveSettings(settings')
        /\ setLoaded' = NoLoad
        /\ UNCHANGED setOthers

\* set('graphicsQuality', value)
SettingsSetQuality ==
    \E q \in QualityInputs :
        /\ settings' = applyGraphicsQuality([settings EXCEPT !.graphicsQuality = q], q)
        /\ setStorage' = saveSettings(settings')
        /\ setLoaded' = NoLoad
        /\ UNCHANGED setOthers

\* set('highContrast', value)
SettingsSetContrast ==
    \E b \in BOOLEAN :
        /\ settings' = [settings EXCEPT !.highContrast = b]
        /\ setStorage' = saveSettings(settings')
        /\ setLoaded' = NoLoad
        /\ UNCHANGED setOthers

\* reset()
SettingsReset ==
    /\ settings' = getDefaultSettings
    /\ setStorage' = saveSettings(settings')
    /\ setLoaded' = NoLoad
    /\ UNCHANGED setOthers

\* The settings after loadSettings() has read text
LoadedSettings(cur, text) ==
    IF text.kind = "absent" THEN cur
    ELSE IF ParseThrows(text) THEN getDefaultSettings
    ELSE Spread(getDefaultSettings, JSONParse(text))

\* loadSettings()
SettingsLoad ==
    /\ settings' = LoadedSettings(settings, setStorage)
    /\ setLoaded' = setStorage
    /\ UNCHANGED <<setStorage, setOthers>>

\* importSettings(settingsJson): FALSE when the import fails
ImportOk(text) == text.kind = "json"
ImportedSettings(text) ==
    LET imported == JSONParse(text)
        valid == [k \in SettingKeys \cap DOMAIN imported |-> imported[k]]
    IN Spread(getDefaultSettings, valid)

SettingsImport ==
    \E text \in ExternalTexts \ {AbsentText} :
        /\ settings' = IF ImportOk(text) THEN ImportedSettings(text) ELSE settings
        /\ setStorage' = IF ImportOk(text) THEN saveSettings(settings') ELSE setStorage
        /\ setLoaded' = NoLoad
        /\ UNCHANGED setOthers

\* The first action, in Object.keys order, bound to key; "" when there is none
RECURSIVE FindBound(_, _, _)
FindBound(kb, key, i) ==
    IF i > Len(BindingOrder) THEN ""
    ELSE IF BindingOrder[i] \in DOMAIN kb /\ kb[BindingOrder[i]] = key THEN BindingOrder[i]
    ELSE FindBound(kb, key, i + 1)

\* rebindKey(action, newKey) returns true
RebindAllowed_AnyKey(kb, action, newKey) == TRUE
RebindAllowed(kb, action, newKey) ==
    LET existingAction == FindBound(kb, newKey, 1)
    IN ~(existingAction # "" /\ existingAction # action)

SettingsRebindKey ==
    \E action \in BindingActions, newKey \in BindingKeys :
        /\ settings' = IF RebindAllowed(settings.keyBindings, action, newKey)
                       THEN [settings EXCEPT !.keyBindings =
                                Spread(@, [a \in {action} |-> newKey])]
                       ELSE settings
        /\ setStorage' = IF RebindAllowed(settings.keyBindings, action, newKey)
                         THEN saveSettings(settings')
                         ELSE setStorage
        /\ setLoaded' = NoLoad
        /\ UNCHANGED setOthers

\* The stored text is replaced from outside this session
SettingsStorageExternal ==
    /\ setStorage' \in ExternalTexts
    /\ setStorage' # setStorage
    /\ setLoaded' = NoLoad
    /\ UNCHANGED <<settings, setOthers>>

\* A session that changes settings through set() and rebindKey() only
NextRebind ==
    \/ SettingsRebindKey
    \/ SettingsSetQuality
    \/ SettingsSetContrast

NextSettings ==
    \/ SettingsSetVolume
    \/ SettingsSetQuality
    \/ SettingsSetContrast
    \/ SettingsReset
    \/ SettingsLoad
    \/ SettingsImport
    \/ SettingsRebindKey
    \/ SettingsStorageExternal

(***************************************************************************)
(* MissionManager (src/game/systems/MissionManager.ts)                     *)
(* Timestamps are in half-days: two of them make the 24 hours of           *)
(* checkResetNeeded and fourteen the 7 days of loadProgress.               *)
(***************************************************************************)
StartNow == 20
MaxHalfDays == 2
MaxUpdates == 1
MaxShuffle == 2

dailyMissionTemplates ==
    << [category |-> "gold", target |-> 100],
       [category |-> "enemies", target |-> 50],
       [category |-> "distance", target |-> 2000],
       [category |-> "powerups", target |-> 10],
       [category |-> "distance", target |-> 300] >>

weeklyMissionTemplates ==
    << [category |-> "enemies", target |-> 500],
       [category |-> "distance", target |-> 15000],
       [category |-> "gold", target |-> 2000],
       [category |-> "powerups", target |-> 50] >>

CategoryInputs == {"gold", "distance"}
AmountInputs == {60, 2000}

\* A lastReset that is undefined (the stored object has no such field)
Undefined == -1

\* shuffleArray(array): the permutations considered are the rotations by r
shuffleArray(array, r) ==
    [i \in 1..Len(array) |-> array[((i - 1 + r) % Len(array)) + 1]]

NewMission(type, template, now, i) ==
    [id |-> <<type, now, i>>, type |-> type, category |-> template.category,
     target |-> template.target, current |-> 0,
     isCompleted |-> FALSE, isClaimed |-> FALSE]

\* generateNewMissions(): dailyCount daily missions and one weekly mission
generateNewMissions(now, dailyCount, rDaily, rWeekly) ==
    LET shuffledDaily == shuffleArray(dailyMissionTemplates, rDaily)
        shuffledWeekly == shuffleArray(weeklyMissionTemplates, rWeekly)
    IN [i \in 1..dailyCount |-> NewMission("daily", shuffledDaily[i], now, i - 1)]
       \o << NewMission("weekly", shuffledWeekly[1], now, 0) >>

\* The stored progress text written by saveProgress()
saveProgress(missions, lastReset) ==
    JSONStringify([lastReset |-> lastReset, missions |-> missions])

\* Texts the missions key may hold that no saveProgress wrote
ExternalMissionTexts == {AbsentText, GarbageText, NullText, JSONStringify(EmptyObj)}

\* The filter of loadProgress(): claimed missions are dropped once the
\* last reset is 7 days old (a comparison with an undefined lastReset is false)
KeepMission(m, lastReset, now) ==
    \/ ~m.isClaimed
    \/ (lastReset # Undefined /\ now - lastReset < 14)

RECURSIVE FilterMissions(_, _, _)
FilterMissions(seq, lastReset, now) ==
    IF seq = <<>> THEN <<>>
    ELSE IF KeepMission(Head(seq), lastReset, now)
         THEN <<Head(seq)>> \o FilterMissions(Tail(seq), lastReset, now)
         ELSE FilterMissions(Tail(seq), lastReset, now)

\* loadProgress() as it would be if the else branch and the catch branch
\* stamped lastReset with the current time instead of 0
LoadProgress_StampsNow(text, now) ==
    IF text.kind = "absent" \/ ParseThrows(text) \/ ParsesToNull(text)
       \/ "missions" \notin DOMAIN JSONParse(text)
    THEN [missions |-> <<>>, lastReset |-> now]
    ELSE LET progress == JSONParse(text)
             lastReset == IF "lastReset" \in DOMAIN progress
                          THEN progress.lastReset ELSE Undefined
         IN [missions |-> FilterMissions(progress.missions, lastReset, now),
             lastReset |-> lastReset]

\* loadProgress(): the missions and lastReset it leaves, from the field
\* initialisers missions = [] and lastReset = 0
LoadProgress(text, now) ==
    IF text.kind = "absent" THEN [missions |-> <<>>, lastReset |-> 0]
    ELSE IF ParseThrows(text) \/ ParsesToNull(text)
            \/ "missions" \notin DOMAIN JSONParse(text)
         THEN \* the catch branch: JSON.parse, progress.missions of null or
              \* undefined.filter threw
              [missions |-> <<>>, lastReset |-> 0]
    ELSE LET progress == JSONParse(text)
             lastReset == IF "lastReset" \in DOMAIN progress
                          THEN progress.lastReset ELSE Undefined
         IN [missions |-> FilterMissions(progress.missions, lastReset, now),
             lastReset |-> lastReset]

\* An exception leaves loadProgress(): its body is one try block
LoadProgressThrows(text) == FALSE

\* checkResetNeeded(now)
checkResetNeeded(now, lastReset) ==
    \/ lastReset = Undefined          \* Invalid Date: getDate() is NaN
    \/ (lastReset \div 2) # (now \div 2)
    \/ (now - lastReset) \div 2 >= 7

InitMission ==
    /\ mmMissions = <<>>
    /\ mmLastReset = 0
    /\ mmStorage = AbsentText
    /\ mmNow = StartNow
    /\ mmPhase = "none"
    /\ mmLoaded = NoLoad
    /\ mmUpdates = 0

\* new MissionManager(scene): loadProgress(), then initializeMissionManager()
MMConstruct ==
    /\ mmPhase = "none"
    /\ mmLoaded' = mmStorage
    /\ IF LoadProgressThrows(mmStorage)
       THEN /\ mmPhase' = "threw"
            /\ UNCHANGED <<mmMissions, mmLastReset, mmStorage>>
       ELSE LET loaded == LoadProgress(mmStorage, mmNow)
            IN /\ mmPhase' = "ready"
               /\ IF checkResetNeeded(mmNow, loaded.lastReset)
                  THEN \E dailyCount \in {3, 4}, rDaily \in 0..(MaxShuffle - 1),
                          rWeekly \in 0..(MaxShuffle - 1) :
                         /\ mmMissions' = generateNewMissions(mmNow, dailyCount, rDaily, rWeekly)
                         /\ mmLastReset' = mmNow
                         /\ mmStorage' = saveProgress(mmMissions', mmLastReset')
                  ELSE /\ mmMissions' = loaded.missions
                       /\ mmLastReset' = loaded.lastReset
                       /\ UNCHANGED mmStorage
    /\ UNCHANGED <<mmNow, mmUpdates, mmOthers>>

\* updateProgress(category, amount)
UpdatedMission(m, category, amount) ==
    IF m.category = category /\ ~m.isCompleted
    THEN [m EXCEPT !.current = @ + amount,
                   !.isCompleted = (m.current + amount >= m.target)]
    ELSE m

MMUpdateProgress ==
    /\ mmPhase = "ready"
    /\ mmUpdates < MaxUpdates
    /\ \E category \in CategoryInputs, amount \in AmountInputs :
          mmMissions' = [i \in 1..Len(mmMissions) |->
                            UpdatedMission(mmMissions[i], category, amount)]
    /\ mmStorage' = saveProgress(mmMissions', mmLastReset)
    /\ mmUpdates' = mmUpdates + 1
    /\ mmLoaded' = NoLoad
    /\ UNCHANGED <<mmLastReset, mmNow, mmPhase, mmOthers>>

\* claimReward(missionId) for the id of a mission in the list that is
\* completed and not yet claimed; every other call returns false
MMClaimReward ==
    /\ mmPhase = "ready"
    /\ \E i \in 1..Len(mmMissions) :
          /\ mmMissions[i].isCompleted
          /\ ~mmMissions[i].isClaimed
          /\ mmMissions' = [mmMissions EXCEPT ![i].isClaimed = TRUE]
    /\ mmStorage' = saveProgress(mmMissions', mmLastReset)
    /\ mmLoaded' = NoLoad
    /\ UNCHANGED <<mmLastReset, mmNow, mmPhase, mmUpdates, mmOthers>>

\* Time passes: half a day (at most MaxHalfDays times in a row), or a week (once)
MMAdvance ==
    /\ \E d \in {1, 14} :
          /\ d = 1 => (mmNow - StartNow) % 14 < MaxHalfDays
          /\ d = 14 => mmNow < StartNow + 14
          /\ mmNow' = mmNow + d
    /\ mmLoaded' = NoLoad
    /\ UNCHANGED <<mmMissions, mmLastReset, mmStorage, mmPhase, mmUpdates, mmOthers>>

\* The page is left: the next visit constructs a new MissionManager
MMPageUnload ==
    /\ mmPhase # "none"
    /\ mmPhase' = "none"
    /\ mmMissions' = <<>>
    /\ mmLastReset' = 0
    /\ mmLoaded' = NoLoad
    /\ UNCHANGED <<mmStorage, mmNow, mmUpdates, mmOthers>>

\* Between visits the stored text is cleared or damaged
MMStorageExternal ==
    /\ mmPhase = "none"
    /\ mmStorage' \in ExternalMissionTexts
    /\ mmStorage' # mmStorage
    /\ UNCHANGED <<mmMissions, mmLastReset, mmNow, mmPhase, mmLoaded, mmUpdates, mmOthers>>

NextMission ==
    \/ MMConstruct
    \/ MMUpdateProgress
    \/ MMClaimReward
    \/ MMAdvance
    \/ MMPageUnload
    \/ MMStorageExternal

(***************************************************************************)
(* AssetRegistry (src/unnamed/part_003) and the textures AssetGenerator    *)
(* saves (src/game/systems/AssetGenerator.ts)                              *)
(***************************************************************************)
MaxExternal == 2

\* Every key generateAllAssets() and generateEffectSprites() save a texture under
GeneratedKeys ==
    {"player",
     "enemy_tomato", "enemy_onion", "enemy_pepper", "enemy_broccoli", "enemy_eggplant",
     "projectile_pea", "projectile_corn", "projectile_beet", "projectile_enemy",
     "particle_explosion", "particle_muzzle", "particle_hit", "particle_pickup",
     "particle_blood",
     "ui_button", "ui_panel", "ui_healthbar_bg", "ui_healthbar_fill",
     "ui_icon_health", "ui_icon_score", "ui_icon_wave", "ui_icon_location",
     "ui_icon_radar", "ui_icon_ammo", "ui_icon_weapon_pea", "ui_icon_weapon_corn",
     "ui_icon_weapon_beet",
     "joystick_base", "joystick_thumb", "button_shoot", "button_dash",
     "button_reload", "button_pause",
     "wall", "floor",
     "powerup_ranch", "powerup_oil", "powerup_fertilizer", "powerup_heart",
     "explosion_frame_0", "explosion_frame_1", "explosion_frame_2", "explosion_frame_3",
     "explosion_frame_4", "explosion_frame_5", "explosion_frame_6", "explosion_frame_7",
     "muzzle_flash", "hit_effect", "explosion_effect"}

\* The keys getTexture is asked for
RequestKeys ==
    {"player", "menu_logo",
     "projectile_pea", "projectile-enemy",
     "enemy_tomato", "enemy_boss",
     "particle_hit", "particle-hit",
     "ui_icon_health", "ui_icon_star",
     "powerup_ranch", "powerup_oil", "powerup_olive_oil", "powerup_compost_heart",
     "powerup-compost_heart", "powerup-shield",
     "bg_runner_gradient", "obstacle-spike", "obstacle_rock",
     "coin", "ground-tile", "danger-zone-boss"}

\* key.startsWith(...) / key.includes(...) over RequestKeys
IncludesProjectile == {"projectile_pea", "projectile-enemy"}
IncludesEnemy == {"enemy_tomato", "enemy_boss", "projectile-enemy"}
IncludesParticle == {"particle_hit", "particle-hit"}
StartsWithUiIcon == {"ui_icon_health", "ui_icon_star"}
IncludesPowerup == {"powerup_ranch", "powerup_oil", "powerup_olive_oil",
                    "powerup_compost_heart", "powerup-compost_heart", "powerup-shield"}
StartsWithBg == {"bg_runner_gradient"}
StartsWithObstacle == {"obstacle-spike", "obstacle_rock"}
StartsWithPowerupDash == {"powerup-compost_heart", "powerup-shield"}

\* standardizeKey(key)
standardizeKey(key) ==
    CASE key = "powerup_olive_oil" -> "powerup_olive_oil"
      [] key = "powerup-compost_heart" -> "powerup_compost_heart"
      [] key = "ground-tile" -> "ground-tile"
      [] key = "danger-zone-boss" -> "danger-zone-boss"
      [] OTHER -> key

\* getProceduralFallback(key): the key it returns
getProceduralFallback(key) ==
    IF key \in IncludesProjectile THEN
        (IF key \in {"projectile_pea", "projectile_corn", "projectile_beet"}
         THEN key ELSE "projectile_pea")
    ELSE IF key \in IncludesEnemy THEN
        (IF key \in {"enemy_tomato", "enemy_onion", "enemy_pepper", "enemy_broccoli",
                     "enemy_eggplant"}
         THEN key ELSE "enemy_tomato")
    ELSE IF key \in IncludesParticle THEN
        (IF key \in {"particle_explosion", "particle_muzzle", "particle_hit",
                     "particle_pickup", "particle_blood"}
         THEN key ELSE "particle_hit")
    ELSE IF key \in StartsWithUiIcon THEN
        (IF key \in {"ui_icon_health", "ui_icon_score", "ui_icon_wave", "ui_icon_location",
                     "ui_icon_radar", "ui_icon_ammo", "ui_icon_weapon_pea",
                     "ui_icon_weapon_corn", "ui_icon_weapon_beet"}
         THEN key ELSE "ui_icon_health")
    ELSE IF key \in IncludesPowerup THEN
        (IF key \in {"powerup_ranch", "powerup_olive_oil", "powerup_fertilizer",
                     "powerup_compost_heart"}
         THEN key ELSE "powerup_heart")
    ELSE IF key \in StartsWithBg THEN key          \* createBackgroundFallback(key)
    ELSE IF key \in StartsWithObstacle THEN key    \* createObstacleFallback(key)
    ELSE IF key \in StartsWithPowerupDash THEN
        (CASE key = "powerup-magnet" -> "powerup_magnet"
           [] key = "powerup-shield" -> "powerup_shield"
           [] key = "powerup-double_coins" -> "powerup_double_coins"
           [] key = "powerup-weapon_upgrade" -> "powerup_weapon_upgrade"
           [] OTHER -> "powerup_shield")
    ELSE IF key \in {"coin", "danger-zone-boss", "ground-tile"} THEN key
    ELSE "ui_button"

\* The textures createBackgroundFallback / createObstacleFallback save
FallbackCreates(key) ==
    IF key \in StartsWithBg \cup StartsWithObstacle THEN {key} ELSE {}

\* getTexture(key): the key it returns
getTexture(key, textures) ==
    IF key \in textures THEN key
    ELSE IF standardizeKey(key) \in textures THEN standardizeKey(key)
    ELSE getProceduralFallback(key)

InitAssets ==
    /\ arTextures = {}
    /\ arExternal = {}
    /\ arGenerator = "pending"
    /\ arRequest = ""
    /\ arResult = ""

\* initializeAsync(): the import resolves and the generator saves its textures
ARInitializeDone ==
    /\ arGenerator = "pending"
    /\ arGenerator' = "done"
    /\ arTextures' = arTextures \cup GeneratedKeys
    /\ UNCHANGED <<arExternal, arRequest, arResult, arOthers>>

\* initializeAsync(): the import or the generation fails (the catch branch)
ARInitializeFailed ==
    /\ arGenerator = "pending"
    /\ arGenerator' = "failed"
    /\ UNCHANGED <<arTextures, arExternal, arRequest, arResult, arOthers>>

\* The loader adds an external texture under one of the requested keys
ARLoadExternal ==
    /\ Cardinality(arExternal) < MaxExternal
    /\ \E key \in RequestKeys \ arTextures :
          /\ arTextures' = arTextures \cup {key}
          /\ arExternal' = arExternal \cup {key}
    /\ UNCHANGED <<arGenerator, arRequest, arResult, arOthers>>

\* getTexture(key)
ARGetTexture ==
    /\ \E key \in RequestKeys :
          /\ arRequest' = key
          /\ arResult' = getTexture(key, arTextures)
          /\ arTextures' = IF arResult' \in arTextures THEN arTextures
                           ELSE arTextures \cup FallbackCreates(key)
    /\ UNCHANGED <<arExternal, arGenerator, arOthers>>

NextAssets ==
    \/ ARInitializeDone
    \/ ARInitializeFailed
    \/ ARLoadExternal
    \/ ARGetTexture

----------------------------------------------------------------------------
(***************************************************************************)
(* Page boot (main.ts): the DOMContentLoaded handler, the 15 second        *)
(* loading timeout, the engine's 'ready' event and the page's listeners.   *)
(* Time is in whole seconds since DOMContentLoaded.  A timer callback runs *)
(* in the second in which it falls due: the clock does not pass that       *)
(* second while the timer is pending.                                      *)
(***************************************************************************)
MaxClock == 17
LoadingTimeoutSeconds == 15
NotYet == -1

InitBoot ==
    /\ btPc = "page"
    /\ btClock = 0
    /\ btTimer = "none"
    /\ btGameReady = FALSE
    /\ btReadyAt = NotYet
    /\ btShown = 0
    /\ btException = FALSE
    /\ btStartButton = "visible"
    /\ btScreen = "visible"
    /\ btAccess = [highContrast |-> FALSE, reduceMotion |-> FALSE]
    /\ btHidden = FALSE

\* clearTimeout with nothing in its place: the mutation of the 'ready' handler
clearTimeout_Ignored(timer) == timer

\* clearTimeout(loadingTimeout): cancels the callback unless it has already run
clearTimeout(timer) == IF timer = "pending" THEN "cleared" ELSE timer

\* The DOMContentLoaded handler runs to its end: the timeout is set, the
\* engine is created and the 'ready' listener is registered
BootDOMContentLoaded ==
    /\ btPc = "page"
    /\ btPc' = "waiting"
    /\ btClock' = 0
    /\ btTimer' = "pending"
    /\ btGameReady' = FALSE
    /\ UNCHANGED <<btReadyAt, btShown, btException, btStartButton, btScreen,
                   btAccess, btHidden, btOthers>>

\* The DOMContentLoaded handler, new Phaser.Game(config) throws: the catch
\* branch clears the timeout and shows the message and the reload button
BootEngineThrows ==
    /\ btPc = "page"
    /\ btPc' = "failed"
    /\ btClock' = 0
    /\ btTimer' = clearTimeout("pending")
    /\ btGameReady' = FALSE
    /\ btException' = TRUE
    /\ btShown' = btShown + 1
    /\ btStartButton' = "hidden"
    /\ UNCHANGED <<btReadyAt, btScreen, btAccess, btHidden, btOthers>>

\* The DOMContentLoaded handler, localStorage.getItem throws (storage access
\* denied): the handler ends before the timeout is set
BootStorageThrows ==
    /\ btPc = "page"
    /\ btPc' = "aborted"
    /\ btClock' = 0
    /\ btException' = TRUE
    /\ UNCHANGED <<btTimer, btGameReady, btReadyAt, btShown, btStartButton,
                   btScreen, btAccess, btHidden, btOthers>>

\* game.events.once('ready', ...)
BootReady ==
    /\ btPc = "waiting"
    /\ btReadyAt = NotYet
    /\ btTimer' = clearTimeout(btTimer)
    /\ btGameReady' = TRUE
    /\ btReadyAt' = btClock
    /\ btScreen' = "hidden"
    /\ UNCHANGED <<btPc, btClock, btShown, btException, btStartButton,
                   btAccess, btHidden, btOthers>>

\* The callback of setTimeout(..., 15000)
BootLoadingTimeout ==
    /\ btTimer = "pending"
    /\ btClock >= LoadingTimeoutSeconds
    /\ btTimer' = "fired"
    /\ btShown' = btShown + 1
    /\ btStartButton' = "hidden"
    /\ UNCHANGED <<btPc, btClock, btGameReady, btReadyAt, btException,
                   btScreen, btAccess, btHidden, btOthers>>

\* One second passes
BootTick ==
    /\ btPc # "page"
    /\ btClock < MaxClock
    /\ ~(btTimer = "pending" /\ btClock >= LoadingTimeoutSeconds)
    /\ btClock' = btClock + 1
    /\ UNCHANGED <<btPc, btTimer, btGameReady, btReadyAt, btShown, btException,
                   btStartButton, btScreen, btAccess, btHidden, btOthers>>

\* The click listener of the start button
BootStartButtonClick ==
    /\ btPc = "waiting"
    /\ btStartButton = "visible"
    /\ IF btGameReady
       THEN /\ btTimer' = clearTimeout(btTimer)
            /\ btScreen' = "hidden"
       ELSE UNCHANGED <<btTimer, btScreen>>
    /\ UNCHANGED <<btPc, btClock, btGameReady, btReadyAt, btShown, btException,
                   btStartButton, btAccess, btHidden, btOthers>>

\* The click listeners of the two accessibility toggles
BootToggleAccessibility ==
    /\ btPc \in {"waiting", "failed"}
    /\ \E key \in {"highContrast", "reduceMotion"} :
          btAccess' = [btAccess EXCEPT ![key] = ~btAccess[key]]
    /\ UNCHANGED <<btPc, btClock, btTimer, btGameReady, btReadyAt, btShown,
                   btException, btStartButton, btScreen, btHidden, btOthers>>

\* The visibilitychange listener: the game scene pauses while the tab is hidden
BootVisibilityChange ==
    /\ btPc = "waiting"
    /\ btHidden' = ~btHidden
    /\ UNCHANGED <<btPc, btClock, btTimer, btGameReady, btReadyAt, btShown,
                   btException, btStartButton, btScreen, btAccess, btOthers>>

\* reloadButton.onclick: window.location.reload() loads the page anew; the
\* accessibility settings are in local storage and survive
BootReload ==
    /\ btShown > 0
    /\ btPc' = "page"
    /\ btClock' = 0
    /\ btTimer' = "none"
    /\ btGameReady' = FALSE
    /\ btReadyAt' = NotYet
    /\ btShown' = 0
    /\ btException' = FALSE
    /\ btStartButton' = "visible"
    /\ btScreen' = "visible"
    /\ btHidden' = FALSE
    /\ UNCHANGED <<btAccess, btOthers>>

NextBoot ==
    \/ BootDOMContentLoaded
    \/ BootEngineThrows
    \/ BootStorageThrows
    \/ BootReady
    \/ BootLoadingTimeout
    \/ BootTick
    \/ BootStartButtonClick
    \/ BootToggleAccessibility
    \/ BootVisibilityChange
    \/ BootReload

----------------------------------------------------------------------------
(***************************************************************************)
(* Enemy (Enemy.ts) and the scene code that spawns, updates, hits and      *)
(* destroys it (GameScene.ts).  One enemy at a time is followed.  Its      *)
(* position enters only through its distance to the player.  attemptAttack *)
(* touches lastAttackTime and the projectile group only and is left out.   *)
(***************************************************************************)
MaxTimerDebt == 200

EnemyTypes == {"tomato", "onion", "pepper", "broccoli"}

\* setupStats(): health and attackRange per type
EnemyHealth ==
    [tomato |-> 20, onion |-> 15, pepper |-> 12, broccoli |-> 40]
EnemyAttackRange ==
    [tomato |-> 200, onion |-> 50, pepper |-> 300, broccoli |-> 80]

DeltaInputs == {50, 150, 250}
DistanceInputs == {40, 70, 250, 400}
DamageInputs == {10, 25, 50}

InitEnemy ==
    /\ enPhase = "none"
    /\ enType = "tomato"
    /\ enState = "idle"
    /\ enStateTimer = 0
    /\ enHealth = 0
    /\ enTarget = FALSE
    /\ enDistance = 400
    /\ enScenePlayer = TRUE

\* isInRange()
isInRange(target, distance, type) ==
    IF ~target THEN FALSE ELSE distance <= EnemyAttackRange[type]

\* updateState with a stunned enemy going straight back to the attack: the
\* mutation of the state machine
updateState_StunnedAttacks(state, timer, target, distance, type) ==
    CASE state = "stunned" ->
            IF timer <= 0 THEN "attacking" ELSE state
      [] state = "seeking" ->
            IF target /\ isInRange(target, distance, type) THEN "attacking" ELSE state
      [] state = "attacking" ->
            IF ~target \/ ~isInRange(target, distance, type) THEN "seeking" ELSE state
      [] OTHER -> state

\* updateState(delta), the switch: timer is the stateTimer already reduced
\* by delta, target is this.target after findTarget() in the seeking case
updateState(state, timer, target, distance, type) ==
    CASE state = "stunned" ->
            IF timer <= 0 THEN "seeking" ELSE state
      [] state = "seeking" ->
            IF target /\ isInRange(target, distance, type) THEN "attacking" ELSE state
      [] state = "attacking" ->
            IF ~target \/ ~isInRange(target, distance, type) THEN "seeking" ELSE state
      [] OTHER -> state

\* spawnEnemy(): new Enemy(scene, x, y, randomType)
EnemySpawn ==
    /\ enPhase \in {"none", "destroyed"}
    /\ \E type \in EnemyTypes, distance \in DistanceInputs, player \in BOOLEAN :
          /\ enType' = type
          /\ enHealth' = EnemyHealth[type]
          /\ enDistance' = distance
          /\ enScenePlayer' = player
    /\ enPhase' = "alive"
    /\ enState' = "seeking"
    /\ enStateTimer' = 0
    /\ enTarget' = FALSE
    /\ UNCHANGED enOthers

\* updateEnemies(delta): enemy.update(delta)
EnemyUpdate ==
    /\ enPhase = "alive"
    /\ \E delta \in DeltaInputs :
          /\ enStateTimer - delta >= -MaxTimerDebt
          /\ enStateTimer' = enStateTimer - delta
    /\ enTarget' = IF enState = "seeking" /\ enScenePlayer THEN TRUE ELSE enTarget
    /\ enState' = updateState(enState, enStateTimer', enTarget', enDistance, enType)
    /\ UNCHANGED <<enPhase, enType, enHealth, enDistance, enScenePlayer, enOthers>>

\* The physics step, the tweens and the player's movement change the distance
EnemyMove ==
    /\ enPhase = "alive"
    /\ \E distance \in DistanceInputs \ {enDistance} : enDistance' = distance
    /\ UNCHANGED <<enPhase, enType, enState, enStateTimer, enHealth, enTarget,
                   enScenePlayer, enOthers>>

\* handleProjectileEnemyHit: enemy.takeDamage(damage), and enemy.destroy()
\* when the health has run out
EnemyHit ==
    /\ enPhase = "alive"
    /\ \E amount \in DamageInputs : enHealth' = Max(0, enHealth - amount)
    /\ enState' = "stunned"
    /\ enStateTimer' = 200
    /\ enPhase' = IF enHealth' <= 0 THEN "destroyed" ELSE "alive"
    /\ UNCHANGED <<enType, enTarget, enDistance, enScenePlayer, enOthers>>

NextEnemy ==
    \/ EnemySpawn
    \/ EnemyUpdate
    \/ EnemyMove
    \/ EnemyHit

----------------------------------------------------------------------------
(***************************************************************************)
(* Player (Player.ts): weapons, ammunition and timed power-ups, with the   *)
(* scene's power-up pickup handler (GameScene.ts).  Multipliers are in     *)
(* hundredths.  Date.now(), which paces the shots, and the frame delta,    *)
(* which runs the power-ups down, are separate inputs.                     *)
(***************************************************************************)
MaxShotGap == 800
MaxPeaShots == 3
PLAYER_SPEED == 200

\* Player.weapons
weapons ==
    << [name |-> "Pea Shooter", damage |-> 10, fireRate |-> 150, ammo |-> -1],
       [name |-> "Corn Cannon", damage |-> 25, fireRate |-> 400, ammo |-> 30],
       [name |-> "Beet Bazooka", damage |-> 50, fireRate |-> 800, ammo |-> 10] >>

\* The timed members of PowerUpType
PowerUpTypes == {"RANCH_DIP", "OLIVE_OIL", "FERTILIZER"}

\* applyPowerUp arguments: those of handlePowerUpCollection, and for each type
\* a multiplier above the type's cap
PowerUpInputs ==
    { [type |-> "RANCH_DIP", multiplier |-> 150, durationMs |-> 10000],
      [type |-> "OLIVE_OIL", multiplier |-> 115, durationMs |-> 8000],
      [type |-> "FERTILIZER", multiplier |-> 140, durationMs |-> 10000],
      [type |-> "RANCH_DIP", multiplier |-> 300, durationMs |-> 10000],
      [type |-> "OLIVE_OIL", multiplier |-> 300, durationMs |-> 8000],
      [type |-> "FERTILIZER", multiplier |-> 300, durationMs |-> 10000] }

PowerUpDeltas == {5000}
ClockSteps == {200}

\* Not in activePowerUps
NoEffect == [multiplier |-> 0, remainingTime |-> 0]

baseMoveSpeed == PLAYER_SPEED
baseDamageMultiplier == 100
baseFireRateMultiplier == 100

\* The factor a power-up type contributes in recalculateStats
EffectFactor(active, type) ==
    IF active[type] = NoEffect THEN 100 ELSE active[type].multiplier

\* recalculateStats without the Math.min on the speed multiplier: the mutation
recalculateStats_SpeedUncapped(active) ==
    LET damageMultiplier ==
            Min((baseDamageMultiplier * EffectFactor(active, "RANCH_DIP")) \div 100, 200)
        speedMultiplier == (100 * EffectFactor(active, "OLIVE_OIL")) \div 100
        fireRateMultiplier ==
            Min((baseFireRateMultiplier * EffectFactor(active, "FERTILIZER")) \div 100, 200)
    IN  [moveSpeed |-> (baseMoveSpeed * speedMultiplier) \div 100,
         stats |-> [damageMultiplier |-> damageMultiplier,
                    speedMultiplier |-> speedMultiplier - 100,
                    fireRateMultiplier |-> fireRateMultiplier]]

\* recalculateStats(): the new moveSpeed and the emitted playerStatsChanged
recalculateStats(active) ==
    LET damageMultiplier ==
            Min((baseDamageMultiplier * EffectFactor(active, "RANCH_DIP")) \div 100, 200)
        speedMultiplier ==
            Min((100 * EffectFactor(active, "OLIVE_OIL")) \div 100, 150)
        fireRateMultiplier ==
            Min((baseFireRateMultiplier * EffectFactor(active, "FERTILIZER")) \div 100, 200)
    IN  [moveSpeed |-> (baseMoveSpeed * speedMultiplier) \div 100,
         stats |-> [damageMultiplier |-> damageMultiplier,
                    speedMultiplier |-> speedMultiplier - 100,
                    fireRateMultiplier |-> fireRateMultiplier]]

\* The ammunition check of shoot() with < in place of <=: the mutation
OutOfAmmo_BelowZero(weapon, currentAmmo) ==
    weapon.ammo # -1 /\ currentAmmo < 0

\* The ammunition check of shoot()
OutOfAmmo(weapon, currentAmmo) ==
    weapon.ammo # -1 /\ currentAmmo <= 0

InitPlayer ==
    /\ plWeapon = 0
    /\ plAmmo = weapons[1].ammo
    /\ plMaxAmmo = weapons[1].ammo
    /\ plShots = 0
    /\ plSinceShot = MaxShotGap
    /\ plLastShoot = "none"
    /\ plLastDamage = 0
    /\ plPowerUps = [type \in PowerUpTypes |-> NoEffect]
    /\ plMoveSpeed = PLAYER_SPEED
    /\ plStats = [damageMultiplier |-> 100, speedMultiplier |-> 0,
                  fireRateMultiplier |-> 100]

\* applyPowerUp(powerUpType, multiplier, durationMs)
PlayerApplyPowerUp ==
    /\ \E in \in PowerUpInputs :
          plPowerUps' =
             [plPowerUps EXCEPT ![in.type] =
                 IF @ # NoEffect
                 THEN [multiplier |-> Max(@.multiplier, in.multiplier),
                       remainingTime |-> in.durationMs]
                 ELSE [multiplier |-> in.multiplier,
                       remainingTime |-> in.durationMs]]
    /\ plMoveSpeed' = recalculateStats(plPowerUps').moveSpeed
    /\ plStats' = recalculateStats(plPowerUps').stats
    /\ plLastShoot' = "none"
    /\ UNCHANGED <<plWeapon, plAmmo, plMaxAmmo, plShots, plSinceShot,
                   plLastDamage, plOthers>>

\* update(delta): updatePowerUps runs the effects down, removes the expired
\* ones and recalculates the stats when one was removed
PlayerUpdate ==
    /\ \E delta \in PowerUpDeltas :
          LET expired == { type \in PowerUpTypes :
                              /\ plPowerUps[type] # NoEffect
                              /\ plPowerUps[type].remainingTime - delta <= 0 }
          IN  /\ plPowerUps' =
                    [type \in PowerUpTypes |->
                        IF plPowerUps[type] = NoEffect \/ type \in expired
                        THEN NoEffect
                        ELSE [plPowerUps[type] EXCEPT !.remainingTime = @ - delta]]
              /\ IF expired # {}
                 THEN /\ plMoveSpeed' = recalculateStats(plPowerUps').moveSpeed
                      /\ plStats' = recalculateStats(plPowerUps').stats
                 ELSE UNCHANGED <<plMoveSpeed, plStats>>
    /\ plLastShoot' = "none"
    /\ UNCHANGED <<plWeapon, plAmmo, plMaxAmmo, plShots, plSinceShot,
                   plLastDamage, plOthers>>

\* Date.now() advances
PlayerClock ==
    /\ \E step \in ClockSteps :
          /\ plSinceShot + step <= MaxShotGap
          /\ plSinceShot' = plSinceShot + step
    /\ UNCHANGED <<plWeapon, plAmmo, plMaxAmmo, plShots, plLastShoot, plLastDamage,
                   plPowerUps, plMoveSpeed, plStats, plOthers>>

\* shoot()
PlayerShoot ==
    LET weapon == weapons[plWeapon + 1]
        fireRate == (weapon.fireRate * 100) \div baseFireRateMultiplier
    IN  /\ (weapon.ammo = -1 /\ plSinceShot >= fireRate) => plShots < MaxPeaShots
        /\ IF plSinceShot < fireRate
           THEN /\ plLastShoot' = "too soon"
                /\ UNCHANGED <<plAmmo, plShots, plSinceShot, plLastDamage>>
           ELSE IF OutOfAmmo(weapon, plAmmo)
           THEN /\ plLastShoot' = "empty"
                /\ UNCHANGED <<plAmmo, plShots, plSinceShot, plLastDamage>>
           ELSE /\ plLastShoot' = "fired"
                /\ plLastDamage' = (weapon.damage * baseDamageMultiplier) \div 100
                /\ plShots' = plShots + 1
                /\ plAmmo' = IF weapon.ammo # -1 THEN plAmmo - 1 ELSE plAmmo
                /\ plSinceShot' = 0
        /\ UNCHANGED <<plWeapon, plMaxAmmo, plPowerUps, plMoveSpeed, plStats, plOthers>>

\* switchWeapon(direction): updateWeaponStats refills the ammunition
PlayerSwitchWeapon ==
    /\ \E direction \in {-1, 1} :
          plWeapon' = (plWeapon + direction + Len(weapons)) % Len(weapons)
    /\ plMaxAmmo' = weapons[plWeapon' + 1].ammo
    /\ plAmmo' = weapons[plWeapon' + 1].ammo
    /\ plShots' = 0
    /\ plLastShoot' = "none"
    /\ UNCHANGED <<plSinceShot, plLastDamage, plPowerUps, plMoveSpeed, plStats,
                   plOthers>>

NextPlayer ==
    \/ PlayerApplyPowerUp
    \/ PlayerUpdate
    \/ PlayerClock
    \/ PlayerShoot
    \/ PlayerSwitchWeapon

----------------------------------------------------------------------------
(***************************************************************************)
(* High scores (GameOverScene.saveHighScore) and the scenes that end a run *)
(* (GameScene.gameOver / levelComplete, RunnerGameScene.gameOver).  Scores *)
(* are in tenths: the runner's score is its distance, a fraction.          *)
(***************************************************************************)
MaxKills == 2
MaxDistance == 20

GameModes == {"campaign", "survival", "endless"}

\* No item under the key
Absent == -1

\* GameScene scores: 100 per enemy killed
KillScores == { 100 * kills * 10 : kills \in 0..MaxKills }

\* RunnerGameScene distances: 0.5, 1.2, 1.5 and whole metres
DistanceScores == {5, 12, 15} \cup { 10 * m : m \in 0..(MaxDistance \div 10) }

\* score.toString(): the decimal text of the number, kept as its value in tenths
ScoreToString(score) == score

\* parseInt(text): the integer that the leading digits of the text spell
parseInt(text) == (text \div 10) * 10

\* localStorage.getItem(key) || '0'
StoredOrZero(item) == IF item = Absent THEN ScoreToString(0) ELSE item

InitHighScore ==
    /\ hsStorage = [mode \in GameModes |-> Absent]
    /\ hsStats = [mode \in GameModes |-> Absent]
    /\ hsBefore = Absent
    /\ hsScore = 0
    /\ hsMode = ""

\* saveHighScore(): the highScore_<mode> items afterwards
saveHighScore(storage, mode, score) ==
    LET currentHighScore == parseInt(StoredOrZero(storage[mode]))
    IN  IF score > currentHighScore
        THEN [storage EXCEPT ![mode] = ScoreToString(score)]
        ELSE storage

\* GameOverScene.create(), the stats item: written when the high score is
statsAfter(stats, storage, mode, score) ==
    IF saveHighScore(storage, mode, score) # storage
    THEN [stats EXCEPT ![mode] = score]
    ELSE stats

\* GameScene.gameOver(): the player died; GameOverScene.init(data), create()
GameSceneGameOver ==
    /\ \E mode \in {"campaign", "survival"}, score \in KillScores :
          /\ hsBefore' = hsStorage[mode]
          /\ hsScore' = score
          /\ hsMode' = mode
          /\ hsStorage' = saveHighScore(hsStorage, mode, score)
          /\ hsStats' = statsAfter(hsStats, hsStorage, mode, score)
    /\ UNCHANGED hsOthers

\* GameScene.levelComplete(): the last campaign level is complete;
\* GameOverScene.init(data), create()
GameSceneVictory ==
    /\ \E score \in KillScores \ {0} :
          /\ hsBefore' = hsStorage["campaign"]
          /\ hsScore' = score
          /\ hsMode' = "campaign"
          /\ hsStorage' = saveHighScore(hsStorage, "campaign", score)
          /\ hsStats' = statsAfter(hsStats, hsStorage, "campaign", score)
    /\ UNCHANGED hsOthers

\* RunnerGameScene.gameOver(): the score is the distance run;
\* GameOverScene.init(data), create()
RunnerGameOver ==
    /\ \E distance \in DistanceScores :
          /\ hsBefore' = hsStorage["endless"]
          /\ hsScore' = distance
          /\ hsMode' = "endless"
          /\ hsStorage' = saveHighScore(hsStorage, "endless", distance)
          /\ hsStats' = statsAfter(hsStats, hsStorage, "endless", distance)
    /\ UNCHANGED hsOthers

NextHighScore ==
    \/ GameSceneGameOver
    \/ GameSceneVictory
    \/ RunnerGameOver

----------------------------------------------------------------------------
(***************************************************************************)
(* The player's health (Player.ts): damage, invulnerability, dash, heal    *)
(* and regeneration, with the parts of the GameScene frame that drive them *)
(* (the tween and physics step, updatePlayer, the death check of           *)
(* checkGameState).  Frame deltas are update time; Date.now(), which       *)
(* decides "out of combat", is a separate input.                           *)
(***************************************************************************)
MaxRegenWait == 2000
PLAYER_MAX_HEALTH == 100
HEALTH_REGEN_RATE == 1
DASH_DURATION == 150
DASH_COOLDOWN == 1000
InvulnerabilityMs == 500
RegenIntervalMs == 1000
HeartHeal == 25

FrameDeltas == {100, 250}
PlayerDamageInputs == {10, 25}

\* No health-reducing takeDamage call yet
NoHit == -1

InitVitals ==
    /\ pvScene = "game"
    /\ pvHealth = PLAYER_MAX_HEALTH
    /\ pvInvulnerabilityTime = 0
    /\ pvRegenTimer = 0
    /\ pvOutOfCombat = TRUE
    /\ pvIsDashing = FALSE
    /\ pvDashLeft = 0
    /\ pvDashCooldown = 0
    /\ pvSinceHit = NoHit
    /\ pvLastHit = [result |-> "none", gap |-> NoHit]
    /\ pvRegenWait = 0
    /\ pvDied = FALSE
    /\ pvDiedFrames = 0

\* isInvulnerable()
isInvulnerable(invulnerabilityTime) == invulnerabilityTime > 0

\* updateTimers(delta): a timer runs down while it is above 0
RunDown(timer, delta) == IF timer > 0 THEN timer - delta ELSE timer

\* handleRegeneration(delta): the condition under which health regenerates
RegenCondition(outOfCombat, health) ==
    outOfCombat /\ health < PLAYER_MAX_HEALTH

\* GameScene.update(time, delta) as far as the player's health goes: the
\* dash tween steps (onComplete ends the dash and starts the cooldown), then
\* Player.update runs updateTimers and handleRegeneration, then
\* checkGameState starts the Game Over scene when health is at 0
VitalsFrame ==
    /\ pvScene = "game"
    /\ \E delta \in FrameDeltas :
          LET dashEnds == pvIsDashing /\ pvDashLeft - delta <= 0
              cooldown == IF dashEnds THEN DASH_COOLDOWN ELSE pvDashCooldown
              timer == RunDown(pvRegenTimer, delta)
              regen == RegenCondition(pvOutOfCombat, pvHealth)
              gain == regen /\ timer + delta >= RegenIntervalMs
          IN  /\ pvIsDashing' = (pvIsDashing /\ ~dashEnds)
              /\ pvDashLeft' = IF pvIsDashing /\ ~dashEnds THEN pvDashLeft - delta ELSE 0
              /\ pvDashCooldown' = RunDown(cooldown, delta)
              /\ pvInvulnerabilityTime' = RunDown(pvInvulnerabilityTime, delta)
              /\ pvRegenTimer' = IF ~regen THEN timer
                                 ELSE IF gain THEN 0 ELSE timer + delta
              /\ pvHealth' = IF gain
                             THEN Min(PLAYER_MAX_HEALTH, pvHealth + HEALTH_REGEN_RATE)
                             ELSE pvHealth
              /\ pvSinceHit' = IF pvSinceHit = NoHit THEN NoHit
                               ELSE Min(InvulnerabilityMs, pvSinceHit + delta)
              /\ pvRegenWait' = IF regen /\ ~gain
                                THEN Min(MaxRegenWait, pvRegenWait + delta)
                                ELSE 0
    /\ pvScene' = IF pvHealth' <= 0 THEN "gameOver" ELSE "game"
    /\ pvDiedFrames' = IF pvDied THEN 1 ELSE 0
    /\ pvLastHit' = [result |-> "none", gap |-> NoHit]
    /\ UNCHANGED <<pvOutOfCombat, pvDied, pvOthers>>

\* handlePlayerEnemyCollision / handleProjectilePlayerHit: takeDamage(amount)
VitalsTakeDamage ==
    /\ pvScene = "game"
    /\ \E amount \in PlayerDamageInputs :
          IF isInvulnerable(pvInvulnerabilityTime)
          THEN /\ pvLastHit' = [result |-> "ignored", gap |-> pvSinceHit]
               /\ UNCHANGED <<pvHealth, pvInvulnerabilityTime, pvOutOfCombat,
                              pvRegenTimer, pvSinceHit, pvRegenWait, pvDied>>
          ELSE /\ pvHealth' = Max(0, pvHealth - amount)
               /\ pvInvulnerabilityTime' = InvulnerabilityMs
               /\ pvOutOfCombat' = FALSE
               /\ pvRegenTimer' = 0
               /\ pvLastHit' = [result |-> IF pvHealth' < pvHealth THEN "reduced"
                                           ELSE "unchanged",
                                gap |-> pvSinceHit]
               /\ pvSinceHit' = IF pvHealth' < pvHealth THEN 0 ELSE pvSinceHit
               /\ pvRegenWait' = 0
               /\ pvDied' = (pvDied \/ pvHealth' = 0)
    /\ UNCHANGED <<pvScene, pvIsDashing, pvDashLeft, pvDashCooldown, pvDiedFrames,
                   pvOthers>>

\* dash()
VitalsDash ==
    /\ pvScene = "game"
    /\ IF pvIsDashing \/ pvDashCooldown > 0
       THEN UNCHANGED <<pvIsDashing, pvDashLeft, pvInvulnerabilityTime>>
       ELSE /\ pvIsDashing' = TRUE
            /\ pvDashLeft' = DASH_DURATION
            /\ pvInvulnerabilityTime' = DASH_DURATION
    /\ pvLastHit' = [result |-> "none", gap |-> NoHit]
    /\ UNCHANGED <<pvScene, pvHealth, pvRegenTimer, pvOutOfCombat, pvDashCooldown,
                   pvSinceHit, pvRegenWait, pvDied, pvDiedFrames, pvOthers>>

\* handlePowerUpCollection, the heart: applyHeal(25)
VitalsHeal ==
    /\ pvScene = "game"
    /\ pvHealth' = Min(PLAYER_MAX_HEALTH, pvHealth + HeartHeal)
    /\ pvRegenWait' = IF pvHealth' > pvHealth THEN 0 ELSE pvRegenWait
    /\ pvLastHit' = [result |-> "none", gap |-> NoHit]
    /\ UNCHANGED <<pvScene, pvInvulnerabilityTime, pvRegenTimer, pvOutOfCombat,
                   pvIsDashing, pvDashLeft, pvDashCooldown, pvSinceHit, pvDied,
                   pvDiedFrames, pvOthers>>

\* Date.now() passes lastCombatTime + PLAYER_REGEN_DELAY
VitalsOutOfCombat ==
    /\ pvScene = "game"
    /\ ~pvOutOfCombat
    /\ pvOutOfCombat' = TRUE
    /\ UNCHANGED <<pvScene, pvHealth, pvInvulnerabilityTime, pvRegenTimer,
                   pvIsDashing, pvDashLeft, pvDashCooldown, pvSinceHit, pvLastHit,
                   pvRegenWait, pvDied, pvDiedFrames, pvOthers>>

\* The Game Over scene restarts the game: createPlayer() makes a new Player
VitalsNewRun ==
    /\ pvScene = "gameOver"
    /\ pvScene' = "game"
    /\ pvHealth' = PLAYER_MAX_HEALTH
    /\ pvInvulnerabilityTime' = 0
    /\ pvRegenTimer' = 0
    /\ pvOutOfCombat' = TRUE
    /\ pvIsDashing' = FALSE
    /\ pvDashLeft' = 0
    /\ pvDashCooldown' = 0
    /\ pvSinceHit' = NoHit
    /\ pvLastHit' = [result |-> "none", gap |-> NoHit]
    /\ pvRegenWait' = 0
    /\ pvDied' = FALSE
    /\ pvDiedFrames' = 0
    /\ UNCHANGED pvOthers

NextVitals ==
    \/ VitalsFrame
    \/ VitalsTakeDamage
    \/ VitalsDash
    \/ VitalsHeal
    \/ VitalsOutOfCombat
    \/ VitalsNewRun

\* ---------------------------------------------------------------------------
\* GameScene: the runs of the arena scene
\* (src/src/game/scenes/GameScene.ts, second copy, lines 586-1296)
\*
\* The scene object is created once and reused by scene.start / scene.restart,
\* so its field initialisers run once and init(data) resets only what it names.
\* One frame of the model stands for the frames of two seconds: update() is
\* additive in delta, and the spawn test only compares the time since the last
\* spawn with the spawn rate.  scRun.sinceSpawn is time - lastEnemySpawn, kept up
\* to SpawnGapCap, beyond which the comparison cannot change.
\* ---------------------------------------------------------------------------
MaxGameTime == 85000
MaxSceneKills == 21
MaxProjectiles == 2
SpawnGapCap == 4000
ENEMY_SPAWN_RATE == 3000
ENEMY_MAX_COUNT == 15
WaveDurationMs == 60000
LevelKillTarget == 20
KillPoints == 100
LastLevel == 2
SceneDeltas == {2000}
SceneModes == {"campaign", "survival"}

\* gameData.level is undefined in survival mode
NoLevel == 0

\* the fields init(data) resets, and what create() builds anew: empty groups,
\* a living player.  lastEnemySpawn = 0 makes time - lastEnemySpawn the clock.
RunAtInit(clock) ==
    [score |-> 0, gsScore |-> 0, wave |-> 1, enemiesKilled |-> 0, gameTime |-> 0,
     sinceSpawn |-> clock, enemies |-> 0, spawned |-> 0, projectiles |-> 0,
     playerDead |-> FALSE]

InitScene ==
    /\ scScene = "menu"
    /\ scData = [mode |-> "campaign", level |-> 1]
    /\ scRun = RunAtInit(0)
    /\ scIsPaused = FALSE
    /\ scOverlay = FALSE
    /\ scWorldPaused = FALSE
    /\ scSpawnRate = ENEMY_SPAWN_RATE
    /\ scPrevWaveRate = ENEMY_SPAWN_RATE

\* spawnEnemies: time - lastEnemySpawn > ENEMY_SPAWN_RATE, then size < ENEMY_MAX_COUNT
spawnEnemies_AtMostMax(gap, rate, size) == gap > rate /\ size <= ENEMY_MAX_COUNT
spawnEnemies(gap, rate, size) == gap > rate /\ size < ENEMY_MAX_COUNT

\* GameState.updateScore(points)
updateScore_Overwrite(score, points) == points
updateScore(score, points) == score + points

\* checkGameState: the campaign win condition
levelIsComplete_AtTen(mode, enemiesKilled) ==
    mode = "campaign" /\ enemiesKilled >= LevelKillTarget \div 2
levelIsComplete(mode, enemiesKilled) ==
    mode = "campaign" /\ enemiesKilled >= LevelKillTarget

\* levelComplete: whether another level follows
hasNextLevel(data) ==
    data.mode = "campaign" /\ data.level # NoLevel /\ data.level < LastLevel

\* MenuScene.startCampaign / startSurvival: scene.start(GAME, data), then init
\* and create.  isPaused is a field of the reused scene object.
MenuStartGame ==
    /\ scScene = "menu"
    /\ \E mode \in SceneModes :
        scData' = [mode |-> mode, level |-> IF mode = "campaign" THEN 1 ELSE NoLevel]
    /\ scRun' = RunAtInit(SpawnGapCap)
    /\ scScene' = "game"
    /\ scOverlay' = FALSE
    /\ scWorldPaused' = FALSE
    /\ UNCHANGED <<scIsPaused, scSpawnRate, scPrevWaveRate, scOthers>>

\* update(time, delta): gameTime, updatePlayer (a held pointer shoots),
\* spawnEnemies, updateProjectiles (projectiles off screen are destroyed),
\* checkGameState.  Nothing in it looks at isPaused.  scene.start is queued and
\* carried out before the next update, so the transition is part of the frame.
SceneUpdate ==
    /\ scScene = "game"
    /\ \E delta \in SceneDeltas, fires \in BOOLEAN, offScreen \in BOOLEAN :
        /\ scRun.gameTime + delta <= MaxGameTime
        /\ fires => scRun.projectiles < MaxProjectiles
        /\ LET gap == Min(SpawnGapCap, scRun.sinceSpawn + delta)
               spawn == spawnEnemies(gap, scSpawnRate, scRun.enemies)
               shot == IF fires THEN scRun.projectiles + 1 ELSE scRun.projectiles
               run1 == [scRun EXCEPT !.gameTime = @ + delta,
                                     !.sinceSpawn = IF spawn THEN 0 ELSE gap,
                                     !.enemies = IF spawn THEN @ + 1 ELSE @,
                                     !.spawned = IF spawn THEN @ + 1 ELSE @,
                                     !.projectiles = IF offScreen THEN 0 ELSE shot]
               dead == run1.playerDead
               complete == ~dead /\ levelIsComplete(scData.mode, run1.enemiesKilled)
               next == complete /\ hasNextLevel(scData)
               newWave == (run1.gameTime \div WaveDurationMs) + 1
               waveUp == ~dead /\ scData.mode = "survival" /\ newWave > run1.wave
               kind == IF dead THEN "defeat"
                       ELSE IF next THEN "nextLevel"
                       ELSE IF complete THEN "victory" ELSE "frame"
           IN  /\ scScene' = IF dead THEN "gameOver"
                             ELSE IF complete /\ ~next THEN "victory" ELSE "game"
               /\ scData' = IF next THEN [scData EXCEPT !.level = @ + 1] ELSE scData
               /\ scRun' = IF next THEN RunAtInit(SpawnGapCap)
                           ELSE IF waveUp THEN [run1 EXCEPT !.wave = newWave]
                           ELSE run1
               /\ scOverlay' = IF kind = "frame" THEN scOverlay ELSE FALSE
               /\ scWorldPaused' = IF kind = "frame" THEN scWorldPaused ELSE FALSE
               /\ scPrevWaveRate' = IF waveUp THEN scSpawnRate ELSE scPrevWaveRate
    \* the assignment to GAME_SETTINGS.ENEMY_SPAWN_RATE is commented out
    /\ UNCHANGED <<scIsPaused, scSpawnRate, scOthers>>

\* pointerdown: player.shoot(), which adds the projectile to playerProjectiles
ScenePointerDown ==
    /\ scScene = "game"
    /\ scRun.projectiles < MaxProjectiles
    /\ scRun' = [scRun EXCEPT !.projectiles = @ + 1]
    /\ UNCHANGED <<scScene, scData, scIsPaused, scOverlay, scWorldPaused, scSpawnRate,
                   scPrevWaveRate, scOthers>>

\* handleProjectileEnemyHit, run by the physics step for a projectile and an
\* enemy still in their groups: the projectile is destroyed; a lethal hit counts
\* the kill, adds the score and destroys the enemy.
SceneProjectileEnemyHit ==
    /\ scScene = "game"
    /\ ~scWorldPaused
    /\ scRun.projectiles > 0
    /\ scRun.enemies > 0
    /\ \E lethal \in BOOLEAN :
        /\ lethal => scRun.enemiesKilled < MaxSceneKills
        /\ scRun' = IF lethal
                    THEN [scRun EXCEPT !.projectiles = @ - 1,
                                       !.enemiesKilled = @ + 1,
                                       !.gsScore = updateScore(@, KillPoints),
                                       !.score = updateScore(scRun.gsScore, KillPoints),
                                       !.enemies = @ - 1]
                    ELSE [scRun EXCEPT !.projectiles = @ - 1]
    /\ UNCHANGED <<scScene, scData, scIsPaused, scOverlay, scWorldPaused, scSpawnRate,
                   scPrevWaveRate, scOthers>>

\* handlePlayerEnemyCollision with the hit that brings the player's health to 0
ScenePlayerKilled ==
    /\ scScene = "game"
    /\ ~scWorldPaused
    /\ scRun.enemies > 0
    /\ ~scRun.playerDead
    /\ scRun' = [scRun EXCEPT !.playerDead = TRUE]
    /\ UNCHANGED <<scScene, scData, scIsPaused, scOverlay, scWorldPaused, scSpawnRate,
                   scPrevWaveRate, scOthers>>

\* pauseGame (ESC): resumes when isPaused is set, otherwise pauses the physics
\* world and builds the overlay
ScenePauseGame ==
    /\ scScene = "game"
    /\ scIsPaused' = ~scIsPaused
    /\ scWorldPaused' = ~scIsPaused
    /\ scOverlay' = ~scIsPaused
    /\ UNCHANGED <<scScene, scData, scRun, scSpawnRate, scPrevWaveRate, scOthers>>

\* the overlay's Resume button: resumeGame
SceneResumeGame ==
    /\ scScene = "game"
    /\ scOverlay
    /\ scIsPaused' = FALSE
    /\ scWorldPaused' = FALSE
    /\ scOverlay' = FALSE
    /\ UNCHANGED <<scScene, scData, scRun, scSpawnRate, scPrevWaveRate, scOthers>>

\* the overlay's Restart button: restartLevel destroys the overlay and restarts
\* the scene with the same data; init does not touch isPaused
SceneRestartLevel ==
    /\ scScene = "game"
    /\ scOverlay
    /\ scRun' = RunAtInit(SpawnGapCap)
    /\ scOverlay' = FALSE
    /\ scWorldPaused' = FALSE
    /\ UNCHANGED <<scScene, scData, scIsPaused, scSpawnRate, scPrevWaveRate, scOthers>>

\* the overlay's Main Menu button: exitToMenu
SceneExitToMenu ==
    /\ scScene = "game"
    /\ scOverlay
    /\ scScene' = "menu"
    /\ scOverlay' = FALSE
    /\ scWorldPaused' = FALSE
    /\ UNCHANGED <<scData, scRun, scIsPaused, scSpawnRate, scPrevWaveRate, scOthers>>

\* GameOverScene.restartGame: the same mode again, campaign from level 1
GameOverRestartGame ==
    /\ scScene \in {"gameOver", "victory"}
    /\ scData' = [mode |-> scData.mode,
                  level |-> IF scData.mode = "campaign" THEN 1 ELSE NoLevel]
    /\ scRun' = RunAtInit(SpawnGapCap)
    /\ scScene' = "game"
    /\ UNCHANGED <<scIsPaused, scOverlay, scWorldPaused, scSpawnRate, scPrevWaveRate,
                   scOthers>>

\* GameOverScene.nextLevel, offered after a campaign victory
GameOverNextLevel ==
    /\ scScene = "victory"
    /\ scData.mode = "campaign"
    /\ scData' = [mode |-> "campaign", level |-> LastLevel]
    /\ scRun' = RunAtInit(SpawnGapCap)
    /\ scScene' = "game"
    /\ UNCHANGED <<scIsPaused, scOverlay, scWorldPaused, scSpawnRate, scPrevWaveRate,
                   scOthers>>

\* GameOverScene.returnToMenu
GameOverReturnToMenu ==
    /\ scScene \in {"gameOver", "victory"}
    /\ scScene' = "menu"
    /\ UNCHANGED <<scData, scRun, scIsPaused, scOverlay, scWorldPaused, scSpawnRate,
                   scPrevWaveRate, scOthers>>

NextScene ==
    \/ MenuStartGame
    \/ SceneUpdate
    \/ ScenePointerDown
    \/ SceneProjectileEnemyHit
    \/ ScenePlayerKilled
    \/ ScenePauseGame
    \/ SceneResumeGame
    \/ SceneRestartLevel
    \/ SceneExitToMenu
    \/ GameOverRestartGame
    \/ GameOverNextLevel
    \/ GameOverReturnToMenu

\* ---------------------------------------------------------------------------
\* Enemy fire: the projectiles of a ranged enemy and the player they fly at
\* (src/src/game/entities/Enemy.ts, src/src/game/scenes/GameScene.ts)
\*
\* The scenes spawn tomato, onion, pepper and broccoli; of these the tomato
\* fires projectiles (rangedAttack).  The physics step checks the pairs of the
\* overlaps setupPhysics registered: scene.enemyProjectiles against the player.
\* ---------------------------------------------------------------------------
MaxEnemyProjectiles == 3
TomatoDamage == 8
TomatoCooldown == 2000
ContactDamage == 10
FireDeltas == {250, 500}

NoOverlap == [group |-> "none", before |-> 0, after |-> 0, damage |-> 0,
              invulnerable |-> FALSE, destroyed |-> FALSE]

InitEnemyFire ==
    /\ epEnemy = FALSE
    /\ epSinceAttack = TomatoCooldown
    /\ epOwn = 0
    /\ epScene = 0
    /\ epHealth = PLAYER_MAX_HEALTH
    /\ epInvulnerabilityTime = 0
    /\ epLastOverlap = NoOverlap

\* attemptAttack: nothing before the cooldown has passed
attemptAttack(sinceAttack, cooldown) == ~(sinceAttack < cooldown)

\* setupPhysics: the group whose members are checked against the player
overlapGroup == {"scene"}

\* spawnEnemy with a tomato that finds the player in range; lastAttackTime = 0
FireSpawnEnemy ==
    /\ epHealth > 0
    /\ ~epEnemy
    /\ epEnemy' = TRUE
    /\ epSinceAttack' = TomatoCooldown
    /\ UNCHANGED <<epOwn, epScene, epHealth, epInvulnerabilityTime, epLastOverlap,
                   epOthers>>

\* GameScene.update: player.update (updateTimers), enemy.update in the state
\* 'attacking' (attemptAttack, rangedAttack: the projectile joins the enemy's
\* own group), updateProjectiles (scene.enemyProjectiles off screen)
FireUpdate ==
    /\ epHealth > 0
    /\ \E delta \in FireDeltas, offScreen \in BOOLEAN :
        LET since == Min(TomatoCooldown, epSinceAttack + delta)
            attacks == epEnemy /\ attemptAttack(since, TomatoCooldown)
        IN  /\ attacks => epOwn < MaxEnemyProjectiles
            /\ epInvulnerabilityTime' = RunDown(epInvulnerabilityTime, delta)
            /\ epSinceAttack' = IF attacks THEN 0 ELSE since
            /\ epOwn' = IF attacks THEN epOwn + 1 ELSE epOwn
            /\ epScene' = IF offScreen THEN 0 ELSE epScene
    /\ UNCHANGED <<epEnemy, epHealth, epLastOverlap, epOthers>>

\* The physics step with an enemy projectile on the player: for a member of
\* the registered group handleProjectilePlayerHit runs (takeDamage unless
\* invulnerable, then projectile.destroy()); for any other projectile no
\* callback runs
FireProjectileOverlapsPlayer ==
    /\ epHealth > 0
    /\ \E group \in {"own", "scene"} :
        /\ (group = "own" => epOwn > 0)
        /\ (group = "scene" => epScene > 0)
        /\ LET handled == group \in overlapGroup
               invulnerable == isInvulnerable(epInvulnerabilityTime)
               damaged == handled /\ ~invulnerable
           IN  /\ epHealth' = IF damaged THEN Max(0, epHealth - TomatoDamage)
                              ELSE epHealth
               /\ epInvulnerabilityTime' = IF damaged THEN InvulnerabilityMs
                                           ELSE epInvulnerabilityTime
               /\ epOwn' = IF handled /\ group = "own" THEN epOwn - 1 ELSE epOwn
               /\ epScene' = IF handled /\ group = "scene" THEN epScene - 1 ELSE epScene
               /\ epLastOverlap' = [group |-> group, before |-> epHealth,
                                    after |-> epHealth', damage |-> TomatoDamage,
                                    invulnerable |-> invulnerable,
                                    destroyed |-> handled]
    /\ UNCHANGED <<epEnemy, epSinceAttack, epOthers>>

\* handlePlayerEnemyCollision: takeDamage(10) unless invulnerable
FirePlayerEnemyCollision ==
    /\ epHealth > 0
    /\ epEnemy
    /\ ~isInvulnerable(epInvulnerabilityTime)
    /\ epHealth' = Max(0, epHealth - ContactDamage)
    /\ epInvulnerabilityTime' = InvulnerabilityMs
    /\ UNCHANGED <<epEnemy, epSinceAttack, epOwn, epScene, epLastOverlap, epOthers>>

\* Enemy.destroy: the enemy's projectiles go with it
FireEnemyDestroyed ==
    /\ epHealth > 0
    /\ epEnemy
    /\ epEnemy' = FALSE
    /\ epOwn' = 0
    /\ UNCHANGED <<epSinceAttack, epScene, epHealth, epInvulnerabilityTime,
                   epLastOverlap, epOthers>>

\* checkGameState with health at 0, then a new run from the Game Over scene
FireNewRun ==
    /\ epHealth = 0
    /\ epEnemy' = FALSE
    /\ epSinceAttack' = TomatoCooldown
    /\ epOwn' = 0
    /\ epScene' = 0
    /\ epHealth' = PLAYER_MAX_HEALTH
    /\ epInvulnerabilityTime' = 0
    /\ epLastOverlap' = NoOverlap
    /\ UNCHANGED epOthers

NextEnemyFire ==
    \/ FireSpawnEnemy
    \/ FireUpdate
    \/ FireProjectileOverlapsPlayer
    \/ FirePlayerEnemyCollision
    \/ FireEnemyDestroyed
    \/ FireNewRun

\* ---------------------------------------------------------------------------
\* The pause menu: PauseScene, the gameplay scenes that open it, and the tab's
\* visibility handler (src/unnamed/part_005, src/src/main.ts:176-183,
\* GameScene.ts:529-532, GameOverScene.ts:1283-1286)
\*
\* A scene's status is stopped, running or paused.  The engine pauses a scene
\* only when it is running; it resumes a paused scene, and what it does with
\* a resume of a scene that is not running is left open here.
\* ---------------------------------------------------------------------------
GameplayScenes == {"GameScene", "RunnerGameScene"}
PauseMenuItems == <<"resume", "settings", "mainMenu">>

\* Systems.pause / Systems.resume as scene.pause and scene.resume reach them
scenePause(status) == IF status = "running" THEN "paused" ELSE status
sceneResume(status) ==
    IF status = "stopped" THEN {"stopped", "running"} ELSE {"running"}

InitPauseMenu ==
    /\ psMenu = TRUE
    /\ psStatus = [k \in GameplayScenes |-> "stopped"]
    /\ psPause = "stopped"
    /\ psHud = "stopped"
    /\ psHidden = FALSE
    /\ psOpener = "none"
    /\ psSelectedIndex = 0
    /\ psSettingsOverlay = FALSE

\* MenuScene: scene.start(GAME, ...) or scene.start(RUNNER_GAME, ...); the
\* gameplay scene's create launches the HUD
PauseMenuStartGameplay ==
    /\ psMenu
    /\ ~psHidden
    /\ \E key \in GameplayScenes : psStatus' = [psStatus EXCEPT ![key] = "running"]
    /\ psMenu' = FALSE
    /\ psHud' = "running"
    /\ UNCHANGED <<psPause, psHidden, psOpener, psSelectedIndex, psSettingsOverlay,
                   psOthers>>

\* GameScene.pauseGame / RunnerGameScene.pauseGame on ESC in a running scene:
\* scene.pause(), scene.launch(PAUSE)
PauseMenuOpen ==
    /\ ~psHidden
    /\ psPause = "stopped"
    /\ \E key \in GameplayScenes :
        /\ psStatus[key] = "running"
        /\ psStatus' = [psStatus EXCEPT ![key] = scenePause(@)]
        /\ psOpener' = key
    /\ psPause' = "running"
    /\ UNCHANGED <<psMenu, psHud, psHidden, psSelectedIndex, psSettingsOverlay,
                   psOthers>>

\* keydown-UP, keydown-DOWN, pointerover: another menu item is selected
PauseMenuSelect ==
    /\ ~psHidden
    /\ psPause = "running"
    /\ \E index \in 0..(Len(PauseMenuItems) - 1) \ {psSelectedIndex} :
        psSelectedIndex' = index
    /\ UNCHANGED <<psMenu, psStatus, psPause, psHud, psHidden, psOpener,
                   psSettingsOverlay, psOthers>>

\* PauseScene.resumeGame (the Resume item or ESC): scene.stop(),
\* scene.resume(SCENE_KEYS.GAME)
PauseMenuResumeGame ==
    /\ ~psHidden
    /\ psPause = "running"
    /\ psPause' = "stopped"
    /\ \E status \in sceneResume(psStatus["GameScene"]) :
        psStatus' = [psStatus EXCEPT !["GameScene"] = status]
    /\ psOpener' = "none"
    /\ UNCHANGED <<psMenu, psHud, psHidden, psSelectedIndex, psSettingsOverlay,
                   psOthers>>

\* PauseScene.showSettings / closeSettingsOverlay
PauseMenuSettings ==
    /\ ~psHidden
    /\ psPause = "running"
    /\ \/ PauseMenuItems[psSelectedIndex + 1] = "settings" /\ ~psSettingsOverlay
       \/ psSettingsOverlay
    /\ psSettingsOverlay' = ~psSettingsOverlay
    /\ UNCHANGED <<psMenu, psStatus, psPause, psHud, psHidden, psOpener,
                   psSelectedIndex, psOthers>>

\* PauseScene.returnToMenu: stop HUD, stop GAME, start MENU (which stops
\* the pause scene)
PauseMenuReturnToMenu ==
    /\ ~psHidden
    /\ psPause = "running"
    /\ PauseMenuItems[psSelectedIndex + 1] = "mainMenu"
    /\ psHud' = "stopped"
    /\ psStatus' = [psStatus EXCEPT !["GameScene"] = "stopped"]
    /\ psPause' = "stopped"
    /\ psMenu' = TRUE
    /\ psOpener' = "none"
    /\ UNCHANGED <<psHidden, psSelectedIndex, psSettingsOverlay, psOthers>>

\* visibilitychange: game.scene.pause('GameScene') when the tab is hidden,
\* game.scene.resume('GameScene') when it is shown again
PauseMenuVisibilityChange ==
    /\ psHidden' = ~psHidden
    /\ IF psHidden'
       THEN psStatus' = [psStatus EXCEPT !["GameScene"] = scenePause(@)]
       ELSE \E status \in sceneResume(psStatus["GameScene"]) :
                psStatus' = [psStatus EXCEPT !["GameScene"] = status]
    /\ UNCHANGED <<psMenu, psPause, psHud, psOpener, psSelectedIndex,
                   psSettingsOverlay, psOthers>>

\* gameOver in a running gameplay scene: the Game Over scene, then the menu
PauseMenuGameplayEnds ==
    /\ \E key \in GameplayScenes :
        /\ psStatus[key] = "running"
        /\ psStatus' = [psStatus EXCEPT ![key] = "stopped"]
    /\ psPause = "stopped"
    /\ psHud' = "stopped"
    /\ psMenu' = TRUE
    /\ UNCHANGED <<psPause, psHidden, psOpener, psSelectedIndex, psSettingsOverlay,
                   psOthers>>

NextPauseMenu ==
    \/ PauseMenuStartGameplay
    \/ PauseMenuOpen
    \/ PauseMenuSelect
    \/ PauseMenuResumeGame
    \/ PauseMenuSettings
    \/ PauseMenuReturnToMenu
    \/ PauseMenuVisibilityChange
    \/ PauseMenuGameplayEnds

\* ---------------------------------------------------------------------------
\* InputManager: action states (src/README.md:462-760)
\* ---------------------------------------------------------------------------
InputActions == {"shoot", "dash"}

InitInput ==
    /\ imInputEnabled = TRUE
    /\ imKeyDown = [a \in InputActions |-> FALSE]
    /\ imActionStates = [a \in InputActions |-> FALSE]
    /\ imActionJustPressed = [a \in InputActions |-> FALSE]
    /\ imActionJustReleased = [a \in InputActions |-> FALSE]

\* isActionPressed / isActionJustPressed / isActionJustReleased
isActionPressed(action) == imActionStates[action]
isActionJustPressed(action) == imActionJustPressed[action]
isActionJustReleased(action) == imActionJustReleased[action]

\* the player presses or lets go of the key bound to an action
InputKeyChange ==
    /\ \E action \in InputActions :
        imKeyDown' = [imKeyDown EXCEPT ![action] = ~@]
    /\ UNCHANGED <<imInputEnabled, imActionStates, imActionJustPressed,
                   imActionJustReleased, imOthers>>

\* update(): nothing while input is disabled; otherwise the just-pressed and
\* just-released states are reset and every action's state is read anew
InputUpdate ==
    /\ IF ~imInputEnabled
       THEN UNCHANGED <<imActionStates, imActionJustPressed, imActionJustReleased>>
       ELSE /\ imActionStates' = imKeyDown
            /\ imActionJustPressed' =
                 [a \in InputActions |-> imKeyDown[a] /\ ~imActionStates[a]]
            /\ imActionJustReleased' =
                 [a \in InputActions |-> ~imKeyDown[a] /\ imActionStates[a]]
    /\ UNCHANGED <<imInputEnabled, imKeyDown, imOthers>>

\* setInputEnabled(enabled)
InputSetInputEnabled ==
    /\ \E enabled \in BOOLEAN : imInputEnabled' = enabled
    /\ UNCHANGED <<imKeyDown, imActionStates, imActionJustPressed,
                   imActionJustReleased, imOthers>>

\* loadKeyBindings(), as updateKeyBinding calls it after a rebinding
InputLoadKeyBindings ==
    /\ imActionStates' = [a \in InputActions |-> FALSE]
    /\ imActionJustPressed' = [a \in InputActions |-> FALSE]
    /\ imActionJustReleased' = [a \in InputActions |-> FALSE]
    /\ UNCHANGED <<imInputEnabled, imKeyDown, imOthers>>

NextInput ==
    \/ InputKeyChange
    \/ InputUpdate
    \/ InputSetInputEnabled
    \/ InputLoadKeyBindings

Init ==
    /\ InitGameState
    /\ InitSettings
    /\ InitMission
    /\ InitAssets
    /\ InitBoot
    /\ InitEnemy
    /\ InitPlayer
    /\ InitHighScore
    /\ InitVitals
    /\ InitScene
    /\ InitEnemyFire
    /\ InitPauseMenu
    /\ InitInput

SpecGameState == Init /\ [][NextGameState]_vars
SpecSettings == Init /\ [][NextSettings]_vars
SpecMission == Init /\ [][NextMission]_vars
SpecAssets == Init /\ [][NextAssets]_vars
SpecBoot == Init /\ [][NextBoot]_vars
SpecEnemy == Init /\ [][NextEnemy]_vars
SpecPlayer == Init /\ [][NextPlayer]_vars
SpecHighScore == Init /\ [][NextHighScore]_vars
SpecVitals == Init /\ [][NextVitals]_vars
SpecScene == Init /\ [][NextScene]_vars
SpecEnemyFire == Init /\ [][NextEnemyFire]_vars
SpecPauseMenu == Init /\ [][NextPauseMenu]_vars
SpecInput == Init /\ [][NextInput]_vars
SpecRebind == Init /\ [][NextRebind]_vars

\* C1: after any sequence of GameState operations the player HP is within
\* its clamps, 0 <= playerHP <= playerMaxHP
C1_PlayerHPWithinClamps ==
    /\ 0 <= gsData.playerHP
    /\ gsData.playerHP <= gsData.playerMaxHP

\* C2: the three volume levels held in the settings object and in the text
\* written to local storage stay within [0, 1]
VolumeInRange(v) == v >= 0 /\ v <= 10
C2_VolumesWithinRange ==
    /\ \A k \in VolumeKeys : VolumeInRange(settings[k])
    /\ (setStorage.kind = "json" /\ setStorage \notin ExternalTexts) =>
           \A k \in VolumeKeys : VolumeInRange(setStorage.val[k])

\* C3: after loadSettings every setting that local storage does not supply
\* holds its default: all of them when the text does not parse, and when it
\* parses every missing top-level key and every missing key-binding action
C3_MissingSettingsDefault ==
    /\ (setLoaded.kind = "garbage") => settings = getDefaultSettings
    /\ (setLoaded.kind \in {"json", "null"}) =>
          LET parsed == JSONParse(setLoaded)
          IN /\ \A k \in SettingKeys \ DOMAIN parsed : settings[k] = getDefaultSettings[k]
             /\ \A a \in BindingActions :
                   ("keyBindings" \notin DOMAIN parsed \/ a \notin DOMAIN parsed.keyBindings)
                       => /\ a \in DOMAIN settings.keyBindings
                          /\ settings.keyBindings[a] = DefaultKeyBindings[a]

\* C4: when the stored mission progress is absent or does not parse, the
\* construction of the MissionManager raises no exception and ends with a
\* mission list generated by it in which every mission has current = 0,
\* isCompleted = false and isClaimed = false
C4_FreshMissionsOnBadStorage ==
    (mmLoaded.kind \in {"absent", "garbage"}) =>
        /\ mmPhase = "ready"
        /\ mmMissions # <<>>
        /\ mmLastReset = mmNow
        /\ \A i \in 1..Len(mmMissions) :
              /\ mmMissions[i].id[2] = mmNow
              /\ mmMissions[i].current = 0
              /\ ~mmMissions[i].isCompleted
              /\ ~mmMissions[i].isClaimed

\* The constructor has just returned after finding no stored progress, or
\* one that does not parse, on a visit later than the first
C4_Witness ==
    /\ mmLoaded.kind \in {"absent", "garbage"}
    /\ mmPhase = "ready"
    /\ mmNow >= StartNow + 14

\* C5: getTexture returns, for every requested key, a key for which a
\* texture exists in the scene's texture manager
C5_GetTextureReturnsValidKey ==
    arRequest # "" => arResult \in arTextures

\* The same once the generator has saved all its textures
C5_ValidKeyAfterGeneration ==
    (arRequest # "" /\ arGenerator = "done") => arResult \in arTextures

\* C6: when the engine's 'ready' event fires less than 15 seconds after
\* DOMContentLoaded, the loading-failure message and the reload button are
\* never shown; when the 15 seconds have passed with neither 'ready' nor an
\* initialisation exception, they have been shown exactly once; and they are
\* never shown more than once on one page load.
C6_LoadingFailureShown ==
    /\ btShown \in {0, 1}
    /\ (btReadyAt # NotYet /\ btReadyAt < LoadingTimeoutSeconds) => btShown = 0
    /\ (/\ btClock > LoadingTimeoutSeconds
        /\ ~btException
        /\ (btReadyAt = NotYet \/ btReadyAt > LoadingTimeoutSeconds))
          => btShown = 1

\* 'ready' came in time and the 15 seconds are over
C6_Witness ==
    /\ btReadyAt # NotYet
    /\ btReadyAt < LoadingTimeoutSeconds
    /\ btClock > LoadingTimeoutSeconds
    /\ btTimer = "cleared"
    /\ btShown = 0

\* The state changes the enemy's state machine allows
C7_AllowedTransition ==
    \/ enState' = enState
    \/ /\ enState = "seeking" /\ enState' = "attacking"
       /\ enTarget' /\ enDistance <= EnemyAttackRange[enType]
    \/ /\ enState = "attacking" /\ enState' = "seeking"
       /\ (~enTarget \/ enDistance > EnemyAttackRange[enType])
    \/ /\ enState' = "stunned"
       /\ enStateTimer' = 200
    \/ /\ enState = "stunned" /\ enState' = "seeking"
       /\ enStateTimer' <= 0

\* C7: once constructed an enemy is always seeking, attacking or stunned, and
\* its state changes only from seeking to attacking (a target within attack
\* range), from attacking to seeking (no target, or out of range), from any
\* state to stunned (takeDamage) and from stunned to seeking (the stun timer
\* is at 0 or below).
C7_EnemyStateMachine ==
    /\ [](enPhase # "none" => enState \in {"seeking", "attacking", "stunned"})
    /\ [][(enPhase = "alive" /\ enPhase' # "none") => C7_AllowedTransition]_vars

\* A damaged enemy that has recovered from the stun and attacks again
C7_Witness ==
    /\ enPhase = "alive"
    /\ enState = "attacking"
    /\ enHealth < EnemyHealth[enType]

\* C8: after any sequence of power-up pickups and expirations the player's
\* multipliers stay within their caps: damage at most 2.0, speed at most 1.5
\* (moveSpeed at most 1.5 times the base move speed), fire rate at most 2.0,
\* both as reported to the HUD and as applied to the shots.
C8_MultipliersWithinCaps ==
    LET weapon == weapons[plWeapon + 1]
        fireInterval == (weapon.fireRate * 100) \div baseFireRateMultiplier
    IN  /\ plStats.damageMultiplier <= 200
        /\ plStats.speedMultiplier + 100 <= 150
        /\ plStats.fireRateMultiplier <= 200
        /\ plMoveSpeed * 100 <= 150 * baseMoveSpeed
        /\ plLastShoot = "fired" => plLastDamage <= 2 * weapon.damage
        /\ 2 * fireInterval >= weapon.fireRate

\* All three power-ups are active with multipliers above the caps, and the
\* stats sit exactly at the caps
C8_Witness ==
    /\ \A type \in PowerUpTypes : plPowerUps[type].multiplier = 300
    /\ plMoveSpeed * 100 = 150 * baseMoveSpeed
    /\ plStats.damageMultiplier = 200
    /\ plStats.fireRateMultiplier = 200

\* C9: counted from the selection of the weapon, the Corn Cannon fires
\* exactly 30 projectiles and the Beet Bazooka exactly 10 before shoot()
\* stops creating projectiles, the Pea Shooter never runs out, and the
\* ammunition of a finite-ammo weapon is never below 0.
C9_AmmoAccounting ==
    LET weapon == weapons[plWeapon + 1]
    IN  /\ plMaxAmmo = weapon.ammo
        /\ weapon.ammo # -1 =>
              /\ plAmmo >= 0
              /\ plShots + plAmmo = weapon.ammo
              /\ plLastShoot = "empty" => plAmmo = 0
        /\ (weapon.name = "Corn Cannon" /\ plLastShoot = "empty") => plShots = 30
        /\ (weapon.name = "Beet Bazooka" /\ plLastShoot = "empty") => plShots = 10
        /\ weapon.name = "Pea Shooter" =>
              /\ weapon.ammo = -1
              /\ plLastShoot # "empty"

\* The Corn Cannon has fired its 30 projectiles and a further shoot() call
\* has created none
C9_Witness ==
    /\ weapons[plWeapon + 1].name = "Corn Cannon"
    /\ plShots = 30
    /\ plAmmo = 0
    /\ plLastShoot = "empty"

\* C10: after each Game Over screen for a run with final score s the stored
\* high score of the run's mode is the maximum of its previous value and s,
\* so it never decreases.
C10_HighScoreIsMaximum ==
    hsMode # "" =>
        LET before == IF hsBefore = Absent THEN 0 ELSE hsBefore
            after == IF hsStorage[hsMode] = Absent THEN 0 ELSE hsStorage[hsMode]
        IN  /\ after >= before
            /\ after = Max(before, hsScore)

\* C13: while a damage boost with multiplier m is active every projectile
\* the player fires carries damage floor(weapon damage x min(m, 2.0)), and
\* without a boost it carries the weapon's base damage.
C13_BoostedProjectileDamage ==
    plLastShoot = "fired" =>
        LET weapon == weapons[plWeapon + 1]
            boost == plPowerUps["RANCH_DIP"]
        IN  IF boost # NoEffect
            THEN plLastDamage = (weapon.damage * Min(boost.multiplier, 200)) \div 100
            ELSE plLastDamage = weapon.damage

\* C12: while the player is out of combat with health below maxHealth,
\* health goes up by PLAYER_REGEN_RATE once per second of update time: the
\* update time spent waiting for the next point of health stays below two
\* seconds.
C12_RegeneratesEachSecond ==
    pvRegenWait < MaxRegenWait

\* C14: a takeDamage call reduces the player's health only when at least 500
\* ms of update time have passed since the previous call that reduced it,
\* whatever dashes and heals came in between.
C14_InvulnerableAfterDamage ==
    (pvLastHit.result = "reduced" /\ pvLastHit.gap # NoHit)
        => pvLastHit.gap >= InvulnerabilityMs

C11_WavesGetHarder ==
    /\ (scScene = "game" /\ scData.mode = "survival")
            => scRun.wave = (scRun.gameTime \div WaveDurationMs) + 1
    /\ (scScene = "game" /\ scData.mode = "survival" /\ scRun.wave > 1)
            => scSpawnRate < scPrevWaveRate

\* C16: throughout a GameScene run the score is 100 times enemiesKilled (and
\* equals the score GameState holds), and every enemy spawned in the run is
\* either still in the enemies group or counted once in enemiesKilled.
C16_ScoreCountsKills ==
    /\ scRun.score = KillPoints * scRun.enemiesKilled
    /\ scRun.gsScore = scRun.score
    /\ scRun.enemiesKilled + scRun.enemies = scRun.spawned

\* two kills, with a second projectile still in flight after the last of them
C16_Witness ==
    /\ scScene = "game"
    /\ scRun.enemiesKilled >= 2
    /\ scRun.projectiles > 0
    /\ scRun.enemies > 0

\* a step of the run that adds an enemy to the group
C17_Spawns == scRun'.spawned = scRun.spawned + 1

\* C17: the enemies group never holds more than ENEMY_MAX_COUNT enemies, and
\* an enemy is added only when the group holds fewer than ENEMY_MAX_COUNT and
\* more than ENEMY_SPAWN_RATE ms have passed since the last spawn of the run.
C17_SpawnIsBounded ==
    /\ [](scRun.enemies <= ENEMY_MAX_COUNT)
    /\ [][C17_Spawns =>
            /\ scRun.enemies < ENEMY_MAX_COUNT
            /\ Min(SpawnGapCap, scRun.sinceSpawn + (scRun'.gameTime - scRun.gameTime))
                   > ENEMY_SPAWN_RATE]_vars

\* the group is full and a frame has refused to spawn although the time was up
C17_Witness ==
    /\ scScene = "game"
    /\ scRun.enemies = ENEMY_MAX_COUNT
    /\ scRun.sinceSpawn > ENEMY_SPAWN_RATE

\* a step of update(): game time advances, or the next level is started
C19_Frame ==
    /\ scScene = "game"
    /\ (scRun'.gameTime > scRun.gameTime \/ scData' # scData)

\* a step that completes the level: the next level or the victory screen
C19_Completes ==
    /\ scScene = "game"
    /\ \/ scScene' = "victory"
       \/ scScene' = "game" /\ scData'.level = scData.level + 1

\* what completing a level leads to: level 2 with the counters reset after
\* level 1, the victory screen after level 2 and from nowhere else
C19_Outcome ==
    /\ (C19_Completes /\ scData.level = 1) =>
            /\ scScene' = "game"
            /\ scData' = [mode |-> "campaign", level |-> 2]
            /\ scRun'.enemiesKilled = 0
            /\ scRun'.score = 0
            /\ scRun'.gameTime = 0
            /\ scRun'.wave = 1
            /\ scRun'.enemies = 0
    /\ (C19_Completes /\ scData.level = LastLevel) => scScene' = "victory"
    /\ (scScene' = "victory" /\ scScene # "victory") =>
            /\ C19_Frame
            /\ scData = [mode |-> "campaign", level |-> LastLevel]
            /\ scRun.enemiesKilled >= LevelKillTarget

\* C19 as stated: in campaign mode a frame completes the level exactly when
\* 20 enemies have been killed in it; completing level 1 starts level 2 with
\* the counters reset, and the victory screen follows only level 2.
C19_CompletedAtTwentyKills ==
    [][/\ C19_Frame =>
            (C19_Completes <=>
                (scData.mode = "campaign" /\ scRun.enemiesKilled >= LevelKillTarget))
       /\ C19_Outcome]_vars

\* C19, amended: a frame completes the level exactly when 20 enemies have
\* been killed in it and the player is alive; a player whose health is 0
\* gets the defeat screen whatever the kill count.
C19_CompletedAtTwentyKillsAlive ==
    [][/\ C19_Frame =>
            (C19_Completes <=>
                (/\ scData.mode = "campaign"
                 /\ scRun.enemiesKilled >= LevelKillTarget
                 /\ ~scRun.playerDead))
       /\ C19_Outcome]_vars

\* level 2 has been completed
C19_Witness ==
    /\ scScene = "victory"
    /\ scData = [mode |-> "campaign", level |-> LastLevel]
    /\ scRun.enemiesKilled >= LevelKillTarget

\* C20: while the pause overlay is up and isPaused is set, no enemy is
\* spawned, no projectile is fired, and gameTime, score and the kill count
\* stay as they are.
C20_PausedRunStandsStill ==
    [][(/\ scScene = "game" /\ scIsPaused /\ scOverlay
        /\ scScene' = "game" /\ scIsPaused' /\ scOverlay') =>
            /\ scRun'.gameTime = scRun.gameTime
            /\ scRun'.score = scRun.score
            /\ scRun'.enemiesKilled = scRun.enemiesKilled
            /\ scRun'.spawned = scRun.spawned
            /\ scRun'.projectiles <= scRun.projectiles]_vars

\* C18: whenever a projectile fired by an enemy overlaps the player, the
\* projectile is destroyed, and unless the player is invulnerable the
\* player's health drops by the projectile's damage (not below 0).
C18_EnemyProjectileHitsPlayer ==
    epLastOverlap.group # "none" =>
        /\ epLastOverlap.destroyed
        /\ ~epLastOverlap.invulnerable =>
               epLastOverlap.after = Max(0, epLastOverlap.before - epLastOverlap.damage)

\* a step of the overlay's Restart button on a run that has made progress:
\* the overlay goes and the run is back at what init() and create() set up
C21_Restarts ==
    /\ scScene = "game" /\ scOverlay
    /\ scScene' = "game" /\ ~scOverlay'
    /\ scData' = scData
    /\ scRun # RunAtInit(SpawnGapCap)
    /\ scRun' = RunAtInit(SpawnGapCap)

\* C21: after Restart in the pause overlay the game is not paused: isPaused
\* is false and the physics world runs, so the next ESC press pauses.
C21_RestartUnpauses ==
    [][C21_Restarts => (~scIsPaused' /\ ~scWorldPaused')]_vars

\* C22: while the pause menu that GameScene opened is showing, GameScene is
\* paused, whether or not the tab has been hidden and shown in between.
C22_PausedAcrossTabSwitch ==
    (psPause = "running" /\ psOpener = "GameScene") => psStatus["GameScene"] = "paused"

\* a step of PauseScene.resumeGame: the pause menu closes and no menu opens
C23_Resumes == psPause = "running" /\ psPause' = "stopped" /\ ~psMenu'

\* C23: Resume in the pause menu sets the gameplay scene that opened it
\* running, leaves no gameplay scene paused and the other scene as it was.
C23_ResumeReachesOpener ==
    [][C23_Resumes =>
        /\ psOpener \in GameplayScenes
        /\ psStatus'[psOpener] = "running"
        /\ \A key \in GameplayScenes :
              /\ psStatus'[key] # "paused"
              /\ key # psOpener => psStatus'[key] = psStatus[key]]_vars

\* C24: while input is disabled, isActionPressed, isActionJustPressed and
\* isActionJustReleased are false for every action.
C24_DisabledInputReadsFalse ==
    ~imInputEnabled =>
        \A action \in InputActions :
            /\ ~isActionPressed(action)
            /\ ~isActionJustPressed(action)
            /\ ~isActionJustReleased(action)

\* newKey is bound to an action other than action
C25_BoundElsewhere(action, newKey) ==
    \E other \in BindingActions \ {action} : settings.keyBindings[other] = newKey

\* C25: starting from the default bindings, under rebindKey calls no two
\* actions share a key; rebindKey returns false exactly for a key bound to
\* another action, and a binding changes only to a key that no other action
\* held, so a refused call changes neither the bindings nor the stored text.
C25_BindingsStayDistinct ==
    /\ [](\A a, b \in BindingActions :
              a # b => settings.keyBindings[a] # settings.keyBindings[b])
    /\ [](\A action \in BindingActions, newKey \in BindingKeys :
              RebindAllowed(settings.keyBindings, action, newKey)
                  <=> ~C25_BoundElsewhere(action, newKey))
    /\ [][\A action \in BindingActions :
              settings'.keyBindings[action] # settings.keyBindings[action] =>
                  ~C25_BoundElsewhere(action, settings'.keyBindings[action])]_vars
    /\ [][settings'.keyBindings = settings.keyBindings =>
              (setStorage' = setStorage \/ setStorage' = saveSettings(settings'))]_vars

\* moveUp has been rebound to a free key, and SPACE is still held by dash
C25_Witness ==
    /\ settings.keyBindings["moveUp"] = "X"
    /\ settings.keyBindings["dash"] = "SPACE"
    /\ ~RebindAllowed(settings.keyBindings, "moveUp", "SPACE")
    /\ setStorage = saveSettings(settings)

====
